---- MODULE Spec2Model ----
(***************************************************************************)
(* The SCE-UA optimizer of hydro-rs (src/hydro-rs/src/calibration/sce.rs)  *)
(* as a state machine: one optimizer object, the calls new / init / step   *)
(* on it, and the value each call returns.                                 *)
(*                                                                         *)
(* Numbers.  f64 values are modelled as fixed-point integers (Scale units  *)
(* per 1.0 for metric values, whole units for parameters), rounded toward  *)
(* minus infinity, together with the four special values +inf, -inf, +NaN  *)
(* and -NaN, encoded so that the integer order of the encoding is the      *)
(* order of f64::total_cmp.                                                *)
(*                                                                         *)
(* Random numbers.  ChaCha8Rng is modelled as a seeded counter generator:  *)
(* the state is (x, inc), a draw returns x / RngLevels in [0,1) and moves  *)
(* x to (x + inc) % RngLevels.  The seed fixes (x, inc); inc = 0 is the     *)
(* stream whose draws all collide.                                         *)
(***************************************************************************)
EXTENDS Integers, Sequences, FiniteSets, TLC

\* ------------------------------------------------------------------ bounds
NParams      == 2   \* P: number of parameters of the registered model
MaxComplexes == 2   \* n_complexes ranges over 1..MaxComplexes
MaxKStop     == 2   \* k_stop ranges over 1..MaxKStop
MaxSeed      == 2   \* seed ranges over 0..MaxSeed
NTimesteps   == 2   \* T: length of the forcing series
MaxCalls     == 3   \* init/step calls made on one optimizer
RngLevels    == 4   \* number of distinct values a draw can take
Scale        == 10  \* fixed-point units per 1.0 in metric values

\* ------------------------------------------------------- f64 special values
Inf    == 1000 * 1000
NegInf == -Inf
NaN    == Inf + 1          \* NaN with the sign bit clear
NegNaN == -NaN             \* NaN with the sign bit set

IsNaN(x)    == x = NaN \/ x = NegNaN
IsInf(x)    == x = Inf \/ x = NegInf
IsFinite(x) == ~IsNaN(x) /\ ~IsInf(x)

\* IEEE comparisons a > b and a < b: false when either side is NaN
FGt(a, b) == ~IsNaN(a) /\ ~IsNaN(b) /\ a > b
FLt(a, b) == ~IsNaN(a) /\ ~IsNaN(b) /\ a < b

Abs(x) == IF x < 0 THEN -x ELSE x
Min2(a, b) == IF a < b THEN a ELSE b
Max2(a, b) == IF a > b THEN a ELSE b

RECURSIVE IsqrtIn(_, _, _)
IsqrtIn(x, lo, hi) ==
    IF lo >= hi THEN lo
    ELSE LET mid == (lo + hi + 1) \div 2
         IN  IF mid * mid <= x THEN IsqrtIn(x, mid, hi)
             ELSE IsqrtIn(x, lo, mid - 1)

\* floor(sqrt(x)) for 0 <= x
Isqrt(x) == IsqrtIn(x, 0, Min2(x, 40000))

\* a function over 1..n as a sequence value
Vec(f) == f \o <<>>

RECURSIVE SumSeq(_)
SumSeq(s) == IF s = <<>> THEN 0 ELSE Head(s) + SumSeq(Tail(s))

RECURSIVE SumTo(_, _)
\* f(1) + ... + f(n) for a function (or sequence) f
SumTo(f, n) == IF n = 0 THEN 0 ELSE f[n] + SumTo(f, n - 1)

\* ------------------------------------------------------------------- state
VARIABLES
    sce,        \* the optimizer: the fields of Sce (calibration_params, sce_params)
    build_nan,  \* the NaN an invalid operation (0/0) yields on this build
    ret,        \* what the last call returned
    history,    \* bookkeeping of the calls made so far (not program state)
    twin,       \* a second optimizer and its last return (TwinSpec only)
    call        \* a call of a library function and its result (LibSpec only)

vars == <<sce, build_nan, ret, history, twin, call>>

\* ------------------------------------------------------ random generator
\* ChaCha8Rng::seed_from_u64
seed_from_u64(seed) ==
    [x |-> (seed \div RngLevels) % RngLevels, inc |-> seed % RngLevels]

\* the k-th next value of rng.random::<f64>() (k = 0 is the next one), as the
\* numerator d of d / RngLevels in [0, 1)
Draw(rng, k) == (rng.x + k * rng.inc) % RngLevels

\* the generator after n draws
Advance(rng, n) == [rng EXCEPT !.x = (rng.x + n * rng.inc) % RngLevels]

\* ------------------------------------------------------- model registry
\* climate::get_model / gr4j::init: the bounds table of the registered model,
\* row i = <<lower, upper>>; defaults are the midpoints
init_bounds == Vec([i \in 1..NParams |-> IF i % 2 = 1 THEN <<0, 4>> ELSE <<-2, 2>>])

\* the runoff simulation: fails with ParamsMismatch unless it is given
\* exactly NParams parameters, otherwise one discharge value per timestep.
\* The store and routing arithmetic is replaced by a small integer response:
\* x1 scales the net precipitation, the other parameters add to the flow.
simulate(params, data) ==
    IF Len(params) # NParams
    THEN [ok |-> FALSE, error |-> "ParamsMismatch", value |-> <<>>]
    ELSE [ok |-> TRUE, error |-> "",
          value |-> Vec([t \in 1..Len(data.precipitation) |->
                        params[1] * Max2(data.precipitation[t] - data.pet[t], 0)
                        + (SumTo(params, NParams) - params[1])])]

\* ---------------------------------------------------------------- metrics
SumSq(o, p)  == SumTo(Vec([t \in 1..Len(o) |-> (o[t] - p[t]) * (o[t] - p[t])]), Len(o))
SumProd(o, p) == SumTo(Vec([t \in 1..Len(o) |-> o[t] * p[t]]), Len(o))
\* n^2 times the variance of o
VarN(o) == Len(o) * SumProd(o, o) - SumSeq(o) * SumSeq(o)

\* metrics::check_lengths
check_lengths(observations, simulations) == Len(observations) = Len(simulations)

\* metrics::calculate_rmse, after check_lengths
calculate_rmse(nan, o, p) ==
    IF Len(o) = 0 THEN nan
    ELSE Isqrt((SumSq(o, p) * Scale * Scale) \div Len(o))

\* metrics::calculate_nse, after check_lengths
calculate_nse(nan, o, p) ==
    LET numerator   == SumSq(o, p) * Len(o)
        denominator == VarN(o)
    IN  IF Len(o) = 0 THEN nan
        ELSE IF denominator = 0
             THEN (IF numerator = 0 THEN nan ELSE NegInf)
             ELSE Scale - ((numerator * Scale) \div denominator)

\* metrics::calculate_kge, after check_lengths
calculate_kge(nan, o, p) ==
    LET vo   == VarN(o)
        vs   == VarN(p)
        cov  == Len(o) * SumProd(o, p) - SumSeq(o) * SumSeq(p)
        sd    == Isqrt(vo * vs)
        r     == (cov * Scale) \div sd
        alpha == Isqrt((vs * Scale * Scale) \div vo)
        beta  == (SumSeq(p) * Scale) \div SumSeq(o)
    IN  IF Len(o) = 0 \/ vo = 0 \/ sd = 0 THEN nan
        ELSE IF SumSeq(o) = 0
             THEN (IF SumSeq(p) = 0 THEN nan ELSE NegInf)
             ELSE Scale - Isqrt((r - Scale) * (r - Scale)
                                + (alpha - Scale) * (alpha - Scale)
                                + (beta - Scale) * (beta - Scale))

\* sce::evaluate_simulation: the row <<RMSE, NSE, KGE>>, or LengthMismatch
evaluate_simulation(nan, observations, simulations) ==
    IF ~check_lengths(observations, simulations)
    THEN [ok |-> FALSE, error |-> "LengthMismatch", value |-> <<>>]
    ELSE [ok |-> TRUE, error |-> "",
          value |-> << calculate_rmse(nan, observations, simulations),
                       calculate_nse(nan, observations, simulations),
                       calculate_kge(nan, observations, simulations) >>]

\* simulate followed by evaluate_simulation, as every evaluation site does
\* (sce.rs 420-421, 640-641, 647-648, 659-660)
Evaluate(nan, params, data, observations) ==
    LET simulation == simulate(params, data)
    IN  IF ~simulation.ok THEN simulation
        ELSE evaluate_simulation(nan, observations, simulation.value)

\* ------------------------------------------------------------ populations
Objectives == {"rmse", "nse", "kge"}

\* the match on Objective (sce.rs 143-147, 195-200, 428-432); the column is
\* 1-based here
objective_idx(objective) ==
    IF objective = "rmse" THEN 1 ELSE IF objective = "nse" THEN 2 ELSE 3
is_minimization(objective) == objective = "rmse"

lower_of(bounds) == Vec([i \in 1..Len(bounds) |-> bounds[i][1]])
upper_of(bounds) == Vec([i \in 1..Len(bounds) |-> bounds[i][2]])

\* random_values * range + lower_bounds for one vector whose components use
\* the draws first, first + 1, ...
RandomPoint(lower_bounds, upper_bounds, rng, first) ==
    Vec([i \in 1..Len(lower_bounds) |->
        lower_bounds[i]
        + (Draw(rng, first + i - 1) * (upper_bounds[i] - lower_bounds[i]))
          \div RngLevels])

\* an initial population of random rows only (no midpoint written to row 0)
generate_random_population(population_size, lower_bounds, upper_bounds, rng) ==
    LET n_params == Len(lower_bounds)
    IN  IF population_size = 0
        THEN [outcome |-> "panic", population |-> <<>>, rng |-> rng]
        ELSE [outcome |-> "ok",
              population |->
                  Vec([r \in 1..population_size |->
                      RandomPoint(lower_bounds, upper_bounds, rng,
                                  (r - 1) * n_params)]),
              rng |-> Advance(rng, population_size * n_params)]

\* sce::generate_initial_population: a panic when population_size = 0
\* (row_mut(0) of an array without rows)
generate_initial_population(population_size, lower_bounds, upper_bounds, rng) ==
    LET n_params == Len(lower_bounds)
        initial_point == Vec([i \in 1..n_params |->
                             (lower_bounds[i] + upper_bounds[i]) \div 2])
    IN  IF population_size = 0
        THEN [outcome |-> "panic", population |-> <<>>, rng |-> rng]
        ELSE [outcome |-> "ok",
              population |->
                  Vec([r \in 1..population_size |->
                      IF r = 1 THEN initial_point
                      ELSE RandomPoint(lower_bounds, upper_bounds, rng,
                                       (r - 1) * n_params)]),
              rng |-> Advance(rng, population_size * n_params)]

\* the comparator of sort_by in sort_population: row a goes strictly before
\* row b (total_cmp on the selected column, reversed when maximising)
SortsBefore(fa, fb, oi, is_min) ==
    IF is_min THEN fa[oi] < fb[oi] ELSE fa[oi] > fb[oi]

RECURSIVE InsertStable(_, _, _, _, _)
\* insert row index i behind every index that does not sort after it
InsertStable(sorted, i, objectives, oi, is_min) ==
    IF sorted = <<>> THEN <<i>>
    ELSE IF SortsBefore(objectives[i], objectives[Head(sorted)], oi, is_min)
         THEN <<i>> \o sorted
         ELSE <<Head(sorted)>>
              \o InsertStable(Tail(sorted), i, objectives, oi, is_min)

RECURSIVE SortedIndices(_, _, _, _)
\* the stable sort of the row indices 1..n
SortedIndices(n, objectives, oi, is_min) ==
    IF n = 0 THEN <<>>
    ELSE InsertStable(SortedIndices(n - 1, objectives, oi, is_min), n,
                      objectives, oi, is_min)

\* sort_population with the sorted indices applied to the population alone
\* (the select of line 476 left out)
sort_population_rows_only(population, objectives, oi, is_min) ==
    LET indices == SortedIndices(Len(objectives), objectives, oi, is_min)
    IN  [population |-> Vec([r \in 1..Len(indices) |-> population[indices[r]]]),
         objectives |-> objectives]

\* sce::sort_population: both tables permuted by the same stable sort
sort_population(population, objectives, oi, is_min) ==
    LET indices == SortedIndices(Len(objectives), objectives, oi, is_min)
    IN  [population |-> Vec([r \in 1..Len(indices) |-> population[indices[r]]]),
         objectives |-> Vec([r \in 1..Len(indices) |-> objectives[indices[r]]])]

\* the first row whose evaluation failed, 0 when none did
FirstFailure(results) ==
    IF \E i \in 1..Len(results) : ~results[i].ok
    THEN CHOOSE i \in 1..Len(results) :
            ~results[i].ok /\ \A j \in 1..(i - 1) : results[j].ok
    ELSE 0

\* the results pushed as the workers finish instead of into their own slots
par_collect_as_finished(schedule, k, evaluated) ==
    Vec([i \in 1..k |-> evaluated[schedule[i]]])

RECURSIVE par_collect(_, _, _)
\* into_par_iter().map().collect() (sce.rs 416-423): the workers finish in the
\* order schedule[1], schedule[2], ...; each writes its result into the slot
\* of its own row
par_collect(schedule, k, evaluated) ==
    IF k = 0 THEN Vec([i \in 1..Len(schedule) |-> [ok |-> FALSE, error |-> "",
                                               value |-> <<>>]])
    ELSE [par_collect(schedule, k - 1, evaluated)
              EXCEPT ![schedule[k]] = evaluated[schedule[k]]]

\* evaluate_initial_population from the collected results on (sce.rs 423-441)
Collected(population, objective, results) ==
    LET failed == FirstFailure(results)
        sorted == sort_population(population,
                      Vec([i \in 1..Len(results) |-> results[i].value]),
                      objective_idx(objective), is_minimization(objective))
    IN  IF failed # 0
        THEN [outcome |-> "err", error |-> results[failed].error,
              population |-> <<>>, objectives |-> <<>>]
        ELSE [outcome |-> "ok", error |-> "",
              population |-> sorted.population,
              objectives |-> sorted.objectives]

\* sce::evaluate_initial_population
evaluate_initial_population(nan, data, observations, population, objective, schedule) ==
    Collected(population, objective,
        par_collect(schedule, Len(population),
            Vec([i \in 1..Len(population) |->
                    Evaluate(nan, population[i], data, observations)])))

\* ------------------------------------------------------- stopping criteria
RECURSIVE Pow(_, _)
Pow(b, e) == IF e = 0 THEN 1 ELSE b * Pow(b, e - 1)

RECURSIVE ProdTo(_, _)
ProdTo(f, n) == IF n = 0 THEN 1 ELSE f[n] * ProdTo(f, n - 1)

\* the geometric range without the division by the bounds (line 493 left
\* out): the geometric mean of max - min
compute_geometric_range(population, lower_bounds, upper_bounds) ==
    LET n_params == Len(lower_bounds)
        rows == 1..Len(population)
        maxs == Vec([i \in 1..n_params |->
                    CHOOSE v \in {population[r][i] : r \in rows} :
                        \A r \in rows : population[r][i] <= v])
        mins == Vec([i \in 1..n_params |->
                    CHOOSE v \in {population[r][i] : r \in rows} :
                        \A r \in rows : population[r][i] >= v])
        ranges == Vec([i \in 1..n_params |-> maxs[i] - mins[i]])
        num == Pow(Scale, n_params) * ProdTo(ranges, n_params)
    IN  IF rows = {} \/ \E i \in 1..n_params : ranges[i] = 0 THEN 0
        ELSE CHOOSE g \in 0..(4 * Scale) :
                /\ Pow(g, n_params) <= num
                /\ (g = 4 * Scale \/ Pow(g + 1, n_params) > num)

\* sce::compute_normalized_geometric_range, in units of 1/Scale: the
\* geometric mean over the parameters of (max - min) / (upper - lower).  A
\* parameter on which all rows agree contributes the floor 1e-10, which
\* brings the mean below 1/Scale.
compute_normalized_geometric_range(population, lower_bounds, upper_bounds) ==
    LET n_params == Len(lower_bounds)
        rows == 1..Len(population)
        maxs == Vec([i \in 1..n_params |->
                    CHOOSE v \in {population[r][i] : r \in rows} :
                        \A r \in rows : population[r][i] <= v])
        mins == Vec([i \in 1..n_params |->
                    CHOOSE v \in {population[r][i] : r \in rows} :
                        \A r \in rows : population[r][i] >= v])
        ranges == Vec([i \in 1..n_params |-> maxs[i] - mins[i]])
        bounds == Vec([i \in 1..n_params |-> upper_bounds[i] - lower_bounds[i]])
        num == Pow(Scale, n_params) * ProdTo(ranges, n_params)
        den == ProdTo(bounds, n_params)
    IN  IF rows = {} \/ \E i \in 1..n_params : ranges[i] = 0 THEN 0
        ELSE CHOOSE g \in 0..(4 * Scale) :
                /\ Pow(g, n_params) * den <= num
                /\ (g = 4 * Scale \/ Pow(g + 1, n_params) * den > num)

\* the relative change of the criteria over the stopping window, in percent
\* and units of 1/Scale (sce.rs 247-268)
criteria_change(nan, criteria, k_stop) ==
    LET len == Len(criteria)
        recent == SubSeq(criteria, len - k_stop + 1, len)
        newest == criteria[len]
        oldest == criteria[len - k_stop + 1]    \* criteria[len - k_stop], 0-based
        sum_abs == SumTo(Vec([i \in 1..k_stop |-> Abs(recent[i])]), k_stop)
    IN  IF len >= k_stop
        THEN IF \E i \in 1..k_stop : IsNaN(recent[i])
             THEN Inf                 \* mean_recent > 0.0 is false for NaN
             ELSE IF \E i \in 1..k_stop : IsInf(recent[i])
                  THEN (IF IsFinite(newest) /\ IsFinite(oldest)
                        THEN 0 ELSE nan)      \* x / inf and inf / inf
                  ELSE IF sum_abs > 0
                       THEN (Abs(newest - oldest) * 100 * k_stop * Scale)
                            \div sum_abs
                       ELSE Inf
        ELSE Inf

\* ---------------------------------------------------------------- complexes
\* a partition into blocks of consecutive rows: complex igs takes the rows
\* igs * n_per_complex + x
partition_into_blocks(population, objectives, n_complexes) ==
    LET n_per_complex == Len(population) \div n_complexes
        k2(igs) == Vec([x \in 1..n_per_complex |-> igs * n_per_complex + x])
    IN  [complexes |->
            Vec([c \in 1..n_complexes |->
                Vec([x \in 1..n_per_complex |-> population[k2(c - 1)[x]]])]),
         complex_objectives |->
            Vec([c \in 1..n_complexes |->
                Vec([x \in 1..n_per_complex |-> objectives[k2(c - 1)[x]]])])]

\* sce::partition_into_complexes: complex igs (0-based) takes the rows
\* x * n_complexes + igs (0-based), x = 0 .. n_per_complex - 1
partition_into_complexes(population, objectives, n_complexes) ==
    LET n_per_complex == Len(population) \div n_complexes
        k2(igs) == Vec([x \in 1..n_per_complex |-> (x - 1) * n_complexes + igs + 1])
    IN  [complexes |->
            Vec([c \in 1..n_complexes |->
                Vec([x \in 1..n_per_complex |-> population[k2(c - 1)[x]]])]),
         complex_objectives |->
            Vec([c \in 1..n_complexes |->
                Vec([x \in 1..n_per_complex |-> objectives[k2(c - 1)[x]]])])]

RECURSIVE Concat(_, _)
Concat(seqs, n) == IF n = 0 THEN <<>> ELSE Concat(seqs, n - 1) \o seqs[n]

\* merge_complexes without its closing sort_population (lines 717-722)
merge_complexes_unsorted(complexes, complex_objectives, oi, is_min) ==
    [population |-> Concat(complexes, Len(complexes)),
     objectives |-> Concat(complex_objectives, Len(complex_objectives))]

\* sce::merge_complexes
merge_complexes(complexes, complex_objectives, oi, is_min) ==
    sort_population(Concat(complexes, Len(complexes)),
                    Concat(complex_objectives, Len(complex_objectives)),
                    oi, is_min)

\* ------------------------------------------------------------ evolution
MaxTries == 1000    \* attempts at a unique index per simplex slot

Contains(seq, v) == \E i \in 1..Len(seq) : seq[i] = v

\* the triangular index floor(n + 0.5 - sqrt((n + 0.5)^2 - n (n + 1) u)) for
\* u = d / RngLevels: the largest k with k (2n + 1 - k) <= n (n + 1) u
lpos_of(n_per_complex, d) ==
    LET n == n_per_complex
        reached(k) == k * (2 * n + 1 - k) * RngLevels <= n * (n + 1) * d
    IN  CHOOSE k \in 0..(n - 1) : reached(k) /\ (k = n - 1 \/ ~reached(k + 1))

RECURSIVE InsertAscending(_, _)
InsertAscending(sorted, v) ==
    IF sorted = <<>> THEN <<v>>
    ELSE IF v < Head(sorted) THEN <<v>> \o sorted
         ELSE <<Head(sorted)>> \o InsertAscending(Tail(sorted), v)

RECURSIVE InsertDescending(_, _)
InsertDescending(sorted, v) ==
    IF sorted = <<>> THEN <<v>>
    ELSE IF v > Head(sorted) THEN <<v>> \o sorted
         ELSE <<Head(sorted)>> \o InsertDescending(Tail(sorted), v)

RECURSIVE SortDescending(_)
\* the sort of line 693 with its comparison turned round: index 0 comes last
SortDescending(seq) ==
    IF seq = <<>> THEN <<>>
    ELSE InsertDescending(SortDescending(Tail(seq)), Head(seq))

RECURSIVE SortAscending(_)
SortAscending(seq) ==
    IF seq = <<>> THEN <<>>
    ELSE InsertAscending(SortAscending(Tail(seq)), Head(seq))

RECURSIVE SelectSlotsFirstDraw(_, _, _, _)
\* the loop over the slots taking the first draw of each slot, chosen
\* already or not
SelectSlotsFirstDraw(indices, slots, n_per_complex, rng) ==
    IF slots = 0 THEN [indices |-> indices, rng |-> rng]
    ELSE SelectSlotsFirstDraw(
             Append(indices, lpos_of(n_per_complex, Draw(rng, 0))),
             slots - 1, n_per_complex, Advance(rng, 1))

RECURSIVE SelectSlots(_, _, _, _)
\* the loop over the slots 1 .. n_simplex - 1 of select_simplex_indices: per
\* slot, the first of MaxTries draws whose index is not yet chosen, else the
\* last draw.  The draws repeat with period RngLevels, so a try that finds
\* a new index is among the first RngLevels tries or there is none.
SelectSlots(indices, slots, n_per_complex, rng) ==
    LET unique(k) == ~Contains(indices, lpos_of(n_per_complex, Draw(rng, k)))
        window == 0..(Min2(MaxTries, RngLevels) - 1)
        found == \E k \in window : unique(k)
        tries == IF found
                 THEN 1 + CHOOSE k \in window :
                              unique(k) /\ \A j \in 0..(k - 1) : ~unique(j)
                 ELSE MaxTries
        lpos == lpos_of(n_per_complex, Draw(rng, tries - 1))
    IN  IF slots = 0 THEN [indices |-> indices, rng |-> rng]
        ELSE SelectSlots(Append(indices, lpos), slots - 1, n_per_complex,
                         Advance(rng, tries))

\* sce::select_simplex_indices: 0-based row indices into the complex,
\* ascending, index 0 always among them
select_simplex_indices(n_per_complex, n_simplex, rng) ==
    LET chosen == SelectSlots(<<0>>, n_simplex - 1, n_per_complex, rng)
    IN  [indices |-> SortAscending(chosen.indices), rng |-> chosen.rng]

\* the closure is_worse of evolve_complex_step
is_worse(new_val, old_val, is_min) ==
    IF is_min THEN FGt(new_val, old_val) ELSE FLt(new_val, old_val)

\* a success that reports no evaluations (calls never incremented)
StepSuccessUncounted(snew, f, calls, rng) ==
    [outcome |-> "ok", error |-> "", snew |-> snew, fnew |-> f.value,
     calls |-> 0, rng |-> rng]

\* what evolve_complex_step returns: Err(e), or Ok((snew, fnew, calls_made))
StepFailure(f, rng) ==
    [outcome |-> "err", error |-> f.error, snew |-> <<>>, fnew |-> <<>>,
     calls |-> 0, rng |-> rng]

StepSuccess(snew, f, calls, rng) ==
    [outcome |-> "ok", error |-> "", snew |-> snew, fnew |-> f.value,
     calls |-> calls, rng |-> rng]

\* evolve_complex_step from the random point on (sce.rs 653-665): f is the
\* evaluation of the random point snew
AfterRandom(snew, f, rng) ==
    IF ~f.ok THEN StepFailure(f, rng) ELSE StepSuccess(snew, f, 3, rng)

\* the contraction branch keeping the random point only when it is not
\* worse than the worst point, the contraction otherwise
AfterContractionKeepingBetter(fw, ctx, rng, snew, f) ==
    LET random == RandomPoint(ctx.lower_bounds, ctx.upper_bounds, rng, 0)
        g == Evaluate(ctx.nan, random, ctx.data, ctx.observations)
    IN  IF ~f.ok THEN StepFailure(f, rng)
        ELSE IF ~is_worse(f.value[ctx.objective_idx], fw, ctx.is_minimization)
        THEN StepSuccess(snew, f, 2, rng)
        ELSE IF ~g.ok
        THEN StepFailure(g, Advance(rng, Len(ctx.lower_bounds)))
        ELSE IF is_worse(g.value[ctx.objective_idx], fw, ctx.is_minimization)
        THEN StepSuccess(snew, f, 3, Advance(rng, Len(ctx.lower_bounds)))
        ELSE StepSuccess(random, g, 3, Advance(rng, Len(ctx.lower_bounds)))

\* evolve_complex_step from the contraction on (sce.rs 644-665): f is the
\* evaluation of the contraction point snew
AfterContraction(fw, ctx, rng, snew, f) ==
    LET random == RandomPoint(ctx.lower_bounds, ctx.upper_bounds, rng, 0)
    IN  IF ~f.ok THEN StepFailure(f, rng)
        ELSE IF ~is_worse(f.value[ctx.objective_idx], fw, ctx.is_minimization)
        THEN StepSuccess(snew, f, 2, rng)
        ELSE AfterRandom(random,
                 Evaluate(ctx.nan, random, ctx.data, ctx.observations),
                 Advance(rng, Len(ctx.lower_bounds)))

\* evolve_complex_step from the first evaluation on (sce.rs 640-665): f is
\* the evaluation of snew, the reflection or the point that replaced it
AfterReflection(sw, fw, ce, ctx, rng, snew, f) ==
    LET contraction == Vec([i \in 1..Len(sw) |-> sw[i] + ((ce[i] - sw[i]) \div 2)])
    IN  IF ~f.ok THEN StepFailure(f, rng)
        ELSE IF ~is_worse(f.value[ctx.objective_idx], fw, ctx.is_minimization)
        THEN StepSuccess(snew, f, 1, rng)
        ELSE AfterContraction(fw, ctx, rng, contraction,
                 Evaluate(ctx.nan, contraction, ctx.data, ctx.observations))

\* evolve_complex_step without the bounds check of lines 625-637: the
\* reflection is evaluated wherever it lies
evolve_complex_step_unchecked(simplex, simplex_objectives, ctx, rng) ==
    LET n == Len(simplex)
        n_params == Len(ctx.lower_bounds)
        sw == simplex[n]
        fw == simplex_objectives[n][ctx.objective_idx]
        ce == Vec([i \in 1..n_params |->
                  SumTo(Vec([r \in 1..(n - 1) |-> simplex[r][i]]), n - 1)
                  \div (n - 1)])
        reflection == Vec([i \in 1..n_params |-> ce[i] + (ce[i] - sw[i])])
    IN  AfterReflection(sw, fw, ce, ctx, rng, reflection,
            Evaluate(ctx.nan, reflection, ctx.data, ctx.observations))

\* sce::evolve_complex_step.  ctx holds the arguments that do not change
\* during a step call: lower_bounds, upper_bounds, nan, data, observations,
\* objective_idx, is_minimization.
evolve_complex_step(simplex, simplex_objectives, ctx, rng) ==
    LET n == Len(simplex)
        n_params == Len(ctx.lower_bounds)
        sw == simplex[n]
        fw == simplex_objectives[n][ctx.objective_idx]
        ce == Vec([i \in 1..n_params |->
                  SumTo(Vec([r \in 1..(n - 1) |-> simplex[r][i]]), n - 1)
                  \div (n - 1)])
        reflection == Vec([i \in 1..n_params |-> ce[i] + (ce[i] - sw[i])])
        out_of_bounds ==
            \/ \E i \in 1..n_params : reflection[i] < ctx.lower_bounds[i]
            \/ \E i \in 1..n_params : reflection[i] > ctx.upper_bounds[i]
        snew == IF out_of_bounds
                THEN RandomPoint(ctx.lower_bounds, ctx.upper_bounds, rng, 0)
                ELSE reflection
    IN  AfterReflection(sw, fw, ce, ctx,
            IF out_of_bounds THEN Advance(rng, n_params) ELSE rng,
            snew, Evaluate(ctx.nan, snew, ctx.data, ctx.observations))

RECURSIVE WriteBack(_, _, _, _)
\* the reintegration loop (sce.rs 572-575): row indices[j] of the complex is
\* assigned row j of the simplex, for j = 1 .. k in turn
WriteBack(table, indices, rows, k) ==
    IF k = 0 THEN table
    ELSE [WriteBack(table, indices, rows, k - 1)
              EXCEPT ![indices[k] + 1] = rows[k]]

\* what the loops of evolve_complexes hand on: a complex, its objectives, the
\* evaluation count and the generator, or the error or panic that ended them
Evolved(outcome, error, cx, cf, n_calls, rng) ==
    [outcome |-> outcome, error |-> error, population |-> cx,
     objectives |-> cf, n_calls |-> n_calls, rng |-> rng]

RECURSIVE EvolveComplex(_, _, _, _, _)

\* the pass overwriting the first simplex slot, the best point's, with the
\* new point
ReintegrateOverBest(complex, steps, n_calls, ctx, simplex_indices, s, sf, ev) ==
    LET n_s == Len(simplex_indices)
    IN  IF ev.outcome # "ok"
        THEN Evolved(ev.outcome, ev.error, complex.population,
                     complex.objectives, n_calls, ev.rng)
        ELSE EvolveComplex(
                 sort_population(
                     WriteBack(complex.population, simplex_indices,
                               [s EXCEPT ![1] = ev.snew], n_s),
                     WriteBack(complex.objectives, simplex_indices,
                               [sf EXCEPT ![1] = ev.fnew], n_s),
                     ctx.objective_idx, ctx.is_minimization),
                 steps - 1, n_calls + ev.calls, ctx, ev.rng)

\* one pass of the inner loop from the result ev of evolve_complex_step on
\* (sce.rs 562-577): s, sf are the selected rows
Reintegrate(complex, steps, n_calls, ctx, simplex_indices, s, sf, ev) ==
    LET n_s == Len(simplex_indices)
    IN  IF ev.outcome # "ok"
        THEN Evolved(ev.outcome, ev.error, complex.population,
                     complex.objectives, n_calls, ev.rng)
        ELSE EvolveComplex(
                 sort_population(
                     WriteBack(complex.population, simplex_indices,
                               [s EXCEPT ![n_s] = ev.snew], n_s),
                     WriteBack(complex.objectives, simplex_indices,
                               [sf EXCEPT ![n_s] = ev.fnew], n_s),
                     ctx.objective_idx, ctx.is_minimization),
                 steps - 1, n_calls + ev.calls, ctx, ev.rng)

\* one pass of the inner loop from the selected indices on (sce.rs 547-577)
EvolveSelected(complex, steps, n_calls, ctx, sel) ==
    LET cx == complex.population
        cf == complex.objectives
        simplex_indices == sel.indices
        n_s == Len(simplex_indices)
        s  == Vec([j \in 1..n_s |-> cx[simplex_indices[j] + 1]])
        sf == Vec([j \in 1..n_s |-> cf[simplex_indices[j] + 1]])
    IN  IF \E j \in 1..n_s : simplex_indices[j] >= Len(cx)
        THEN \* select(Axis(0), ..) with an index out of bounds
             Evolved("panic", "", cx, cf, n_calls, sel.rng)
        ELSE Reintegrate(complex, steps, n_calls, ctx, simplex_indices, s, sf,
                         evolve_complex_step(s, sf, ctx, sel.rng))

\* the inner loop of evolve_complexes (sce.rs 544-578) on one complex, steps
\* passes to go; complex is the record of cx and cf
EvolveComplex(complex, steps, n_calls, ctx, rng) ==
    IF steps = 0
    THEN Evolved("ok", "", complex.population, complex.objectives, n_calls, rng)
    ELSE EvolveSelected(complex, steps, n_calls, ctx,
             select_simplex_indices(ctx.n_per_complex, ctx.n_simplex, rng))

RECURSIVE evolve_complexes(_, _, _, _, _, _)

\* the outer loop of evolve_complexes once complex igs has been evolved to one
NextComplex(complexes, complex_objectives, igs, n_calls, ctx, one) ==
    IF one.outcome # "ok"
    THEN [outcome |-> one.outcome, error |-> one.error,
          complexes |-> complexes, complex_objectives |-> complex_objectives,
          n_calls |-> n_calls, rng |-> one.rng]
    ELSE evolve_complexes([complexes EXCEPT ![igs] = one.population],
                          [complex_objectives EXCEPT ![igs] = one.objectives],
                          igs + 1, one.n_calls, ctx, one.rng)

\* sce::evolve_complexes, from complex igs (1-based) on
evolve_complexes(complexes, complex_objectives, igs, n_calls, ctx, rng) ==
    IF igs > ctx.n_complexes
    THEN [outcome |-> "ok", error |-> "", complexes |-> complexes,
          complex_objectives |-> complex_objectives,
          n_calls |-> n_calls, rng |-> rng]
    ELSE NextComplex(complexes, complex_objectives, igs, n_calls, ctx,
             EvolveComplex([population |-> complexes[igs],
                            objectives |-> complex_objectives[igs]],
                           ctx.n_evolution_steps, n_calls, ctx, rng))

\* ----------------------------------------------------------- the optimizer
\* Sce::new once the registries have answered with a bounds table (sce.rs
\* 78-134)
SceNewFrom(bounds, objective, n_complexes, k_stop, p_convergence_threshold, geometric_range_threshold, max_evaluations, seed) ==
    LET n_params == Len(bounds)
        n_per_complex == 2 * n_params + 1
        population_size == n_complexes * n_per_complex
        generated == generate_initial_population(population_size,
                         lower_of(bounds), upper_of(bounds),
                         seed_from_u64(seed))
    IN  [ params |-> generated.population[1],
          lower_bounds |-> lower_of(bounds),
          upper_bounds |-> upper_of(bounds),
          objective |-> objective,
          rng |-> generated.rng,
          done |-> FALSE,
          population |-> generated.population,
          objectives |-> Vec([r \in 1..population_size |-> <<Inf, NegInf, NegInf>>]),
          criteria |-> <<>>,
          n_calls |-> 0,
          n_complexes |-> n_complexes,
          n_per_complex |-> n_per_complex,
          n_simplex |-> n_params + 1,
          n_evolution_steps |-> 2 * n_params + 1,
          k_stop |-> k_stop,
          p_convergence_threshold |-> p_convergence_threshold,
          geometric_range_threshold |-> geometric_range_threshold,
          max_evaluations |-> max_evaluations ]

\* Sce::new for the runoff model alone
SceNew(objective, n_complexes, k_stop, p_convergence_threshold, geometric_range_threshold, max_evaluations, seed) ==
    SceNewFrom(init_bounds, objective, n_complexes, k_stop, p_convergence_threshold, geometric_range_threshold, max_evaluations, seed)

NoValue == [done |-> FALSE, best_params |-> <<>>, best_simulation |-> <<>>,
            best_objectives |-> <<>>]

Returned(op, outcome, error, value) ==
    [op |-> op, outcome |-> outcome, error |-> error, value |-> value]

\* init with one more draw from the generator for every evaluated row
InitEvaluatedDrawing(drawn, evaluated) ==
    IF evaluated.outcome # "ok"
    THEN [sce |-> [drawn EXCEPT !.rng = Advance(@, Len(drawn.population))],
          ret |-> Returned("init", "err", evaluated.error, NoValue)]
    ELSE [sce |-> [drawn EXCEPT
                      !.rng = Advance(@, Len(drawn.population)),
                      !.criteria = << evaluated.objectives[1]
                                          [objective_idx(drawn.objective)] >>,
                      !.params = evaluated.population[1],
                      !.population = evaluated.population,
                      !.objectives = evaluated.objectives],
          ret |-> Returned("init", "ok", "", NoValue)]

\* init appending to the criteria history it finds
InitEvaluatedAppending(drawn, evaluated) ==
    IF evaluated.outcome # "ok"
    THEN [sce |-> drawn,
          ret |-> Returned("init", "err", evaluated.error, NoValue)]
    ELSE [sce |-> [drawn EXCEPT
                      !.criteria = Append(@, evaluated.objectives[1]
                                          [objective_idx(drawn.objective)]),
                      !.params = evaluated.population[1],
                      !.population = evaluated.population,
                      !.objectives = evaluated.objectives],
          ret |-> Returned("init", "ok", "", NoValue)]

\* init clearing the done flag
InitEvaluatedRestarting(drawn, evaluated) ==
    IF evaluated.outcome # "ok"
    THEN [sce |-> drawn,
          ret |-> Returned("init", "err", evaluated.error, NoValue)]
    ELSE [sce |-> [drawn EXCEPT
                      !.done = FALSE,
                      !.criteria = << evaluated.objectives[1]
                                          [objective_idx(drawn.objective)] >>,
                      !.params = evaluated.population[1],
                      !.population = evaluated.population,
                      !.objectives = evaluated.objectives],
          ret |-> Returned("init", "ok", "", NoValue)]

\* init counting the evaluations of its population
InitEvaluatedCounting(drawn, evaluated) ==
    IF evaluated.outcome # "ok"
    THEN [sce |-> drawn,
          ret |-> Returned("init", "err", evaluated.error, NoValue)]
    ELSE [sce |-> [drawn EXCEPT
                      !.n_calls = @ + Len(evaluated.population),
                      !.criteria = << evaluated.objectives[1]
                                          [objective_idx(drawn.objective)] >>,
                      !.params = evaluated.population[1],
                      !.population = evaluated.population,
                      !.objectives = evaluated.objectives],
          ret |-> Returned("init", "ok", "", NoValue)]

\* Sce::init from the evaluated population on (sce.rs 157-171): drawn is the
\* optimizer with its generator advanced
InitEvaluated(drawn, evaluated) ==
    IF evaluated.outcome # "ok"
    THEN [sce |-> drawn,
          ret |-> Returned("init", "err", evaluated.error, NoValue)]
    ELSE [sce |-> [drawn EXCEPT
                      !.criteria = << evaluated.objectives[1]
                                          [objective_idx(drawn.objective)] >>,
                      !.params = evaluated.population[1],
                      !.population = evaluated.population,
                      !.objectives = evaluated.objectives],
          ret |-> Returned("init", "ok", "", NoValue)]

\* Sce::init from the generated population on (sce.rs 156-171)
InitGenerated(s, nan, data, observations, schedule, generated) ==
    IF generated.outcome = "panic"
    THEN [sce |-> s, ret |-> Returned("init", "panic", "", NoValue)]
    ELSE InitEvaluated([s EXCEPT !.rng = generated.rng],
             evaluate_initial_population(nan, data, observations,
                 generated.population, s.objective, schedule))

\* Sce::init
SceInit(s, nan, data, observations, schedule) ==
    InitGenerated(s, nan, data, observations, schedule,
        generate_initial_population(Len(s.population), s.lower_bounds,
                                    s.upper_bounds, s.rng))

\* the done branch counting its simulation as an evaluation
StepDoneCounting(s, data) ==
    LET best_simulation == simulate(s.params, data)
    IN  IF ~best_simulation.ok
        THEN [sce |-> s,
              ret |-> Returned("step", "err", best_simulation.error, NoValue)]
        ELSE IF s.objectives = <<>>
        THEN [sce |-> s, ret |-> Returned("step", "panic", "", NoValue)]
        ELSE [sce |-> [s EXCEPT !.n_calls = @ + 1],
              ret |-> Returned("step", "ok", "",
                         [done |-> TRUE, best_params |-> s.params,
                          best_simulation |-> best_simulation.value,
                          best_objectives |-> s.objectives[1]])]

\* Sce::step when calibration_params.done is set (sce.rs 180-193)
StepDone(s, data) ==
    LET best_simulation == simulate(s.params, data)
    IN  IF ~best_simulation.ok
        THEN [sce |-> s,
              ret |-> Returned("step", "err", best_simulation.error, NoValue)]
        ELSE IF s.objectives = <<>>          \* row(0) of a table without rows
        THEN [sce |-> s, ret |-> Returned("step", "panic", "", NoValue)]
        ELSE [sce |-> s,
              ret |-> Returned("step", "ok", "",
                         [done |-> TRUE, best_params |-> s.params,
                          best_simulation |-> best_simulation.value,
                          best_objectives |-> s.objectives[1]])]

\* Sce::step from the merged population on (sce.rs 234-292): taken is the
\* optimizer whose tables std::mem::take has emptied
StepMerged(taken, ctx, n_calls, rng, merged) ==
    LET best_objective == merged.objectives[1][ctx.objective_idx]
        gnrng == compute_normalized_geometric_range(merged.population,
                     taken.lower_bounds, taken.upper_bounds)
        criteria == Append(taken.criteria, best_objective)
        done == \/ n_calls > taken.max_evaluations
                \/ FLt(gnrng, taken.geometric_range_threshold)
                \/ FLt(criteria_change(ctx.nan, criteria, taken.k_stop),
                       taken.p_convergence_threshold)
        updated == [taken EXCEPT !.rng = rng,
                                 !.criteria = criteria,
                                 !.done = done,
                                 !.params = merged.population[1],
                                 !.n_calls = n_calls]
        best_simulation == simulate(merged.population[1], ctx.data)
    IN  IF ~best_simulation.ok
        THEN [sce |-> updated,
              ret |-> Returned("step", "err", best_simulation.error, NoValue)]
        ELSE [sce |-> [updated EXCEPT !.population = merged.population,
                                      !.objectives = merged.objectives],
              ret |-> Returned("step", "ok", "",
                         [done |-> updated.done,
                          best_params |-> updated.params,
                          best_simulation |-> best_simulation.value,
                          best_objectives |-> merged.objectives[1]])]

\* Sce::step from the result of evolve_complexes on (sce.rs 225-292)
StepEvolved(taken, ctx, evolved) ==
    IF evolved.outcome # "ok"
    THEN \* the ? of line 225 returns with the tables still taken
         [sce |-> [taken EXCEPT !.rng = evolved.rng],
          ret |-> Returned("step", evolved.outcome, evolved.error, NoValue)]
    ELSE StepMerged(taken, ctx, evolved.n_calls, evolved.rng,
             merge_complexes(evolved.complexes, evolved.complex_objectives,
                             ctx.objective_idx, ctx.is_minimization))

\* Sce::step when not done (sce.rs 195-292)
StepRun(s, nan, data, observations) ==
    LET ctx == [lower_bounds |-> s.lower_bounds,
                upper_bounds |-> s.upper_bounds,
                nan |-> nan, data |-> data, observations |-> observations,
                objective_idx |-> objective_idx(s.objective),
                is_minimization |-> is_minimization(s.objective),
                n_complexes |-> s.n_complexes,
                n_per_complex |-> s.n_per_complex,
                n_simplex |-> s.n_simplex,
                n_evolution_steps |-> s.n_evolution_steps]
        parts == partition_into_complexes(s.population, s.objectives,
                                          s.n_complexes)
    IN  StepEvolved(
            \* std::mem::take leaves empty tables in the optimizer
            [s EXCEPT !.population = <<>>, !.objectives = <<>>],
            ctx,
            evolve_complexes(parts.complexes, parts.complex_objectives, 1,
                             s.n_calls, ctx, s.rng))

\* step without the early return of lines 180-193
SceStepWithoutEarlyReturn(s, nan, data, observations) ==
    StepRun(s, nan, data, observations)

\* Sce::step
SceStep(s, nan, data, observations) ==
    IF s.done THEN StepDone(s, data) ELSE StepRun(s, nan, data, observations)

\* ------------------------------------------------------------------ inputs
Timesteps == 1..NTimesteps

\* two forcing series of NTimesteps days
Forcing1 == [precipitation |-> Vec([t \in Timesteps |-> t]),
             pet |-> Vec([t \in Timesteps |-> 0])]
Forcing2 == [precipitation |-> Vec([t \in Timesteps |-> NTimesteps + 2 - t]),
             pet |-> Vec([t \in Timesteps |-> 1])]

\* observed discharge: the simulation on Forcing1 of a parameter vector
\* inside the bounds (the midpoint, its even components lowered by one), and
\* the same series with its last day missing
TrueParams ==
    Vec([i \in 1..NParams |->
            (init_bounds[i][1] + init_bounds[i][2]) \div 2
            - (IF i % 2 = 0 THEN 1 ELSE 0)])
Observed == simulate(TrueParams, Forcing1).value
ObservedShort == SubSeq(Observed, 1, NTimesteps - 1)

Inputs == { [data |-> Forcing1, observations |-> Observed],
            [data |-> Forcing2, observations |-> Observed],
            [data |-> Forcing1, observations |-> ObservedShort] }

\* the orders in which the parallel workers of init may finish: first row
\* first, or last row first
Schedules(n) == { Vec([i \in 1..n |-> i]), Vec([i \in 1..n |-> n + 1 - i]) }

\* the budgets max_evaluations is given: none, one round of evaluations of a
\* complex, and one no sequence of MaxCalls calls exhausts
SmallBudget == 2 * NParams + 1
LargeBudget == 3 * MaxCalls * MaxComplexes * (2 * NParams + 1)

\* the stopping rules an optimizer is constructed with
StoppingRule(k_stop, pct, grt, budget) ==
    [k_stop |-> k_stop, p_convergence_threshold |-> pct,
     geometric_range_threshold |-> grt, max_evaluations |-> budget]

StoppingRules ==
    { StoppingRule(k, 2 * Scale, 0, LargeBudget) : k \in 1..MaxKStop }
    \cup { StoppingRule(1, 0, Scale \div 2, LargeBudget),
           StoppingRule(MaxKStop, 0, Scale + 1, LargeBudget),
           StoppingRule(1, 0, 0, 0),
           StoppingRule(MaxKStop, 0, 0, SmallBudget),
           StoppingRule(MaxKStop, 0, 0, LargeBudget) }

\* the rule and the seed each vary against a fixed value of the other
DefaultRule == StoppingRule(MaxKStop, 0, 0, LargeBudget)
DefaultSeed == 1
RulesAndSeeds ==
    { <<DefaultRule, seed>> : seed \in 0..MaxSeed }
    \cup { <<rule, DefaultSeed>> : rule \in StoppingRules }

\* ------------------------------------------------------------ specification
NoInput == [data |-> [precipitation |-> <<>>, pet |-> <<>>],
            observations |-> <<>>]

NoTwin == [sce |-> <<>>, ret |-> Returned("none", "ok", "", NoValue),
           differed |-> FALSE]

\* nothing has been called on the optimizer
NoHistory == [calls |-> 0, steps_run |-> 0, steps_done |-> 0,
              last_input |-> NoInput,
              initialised |-> FALSE, init_input |-> NoInput,
              consistent |-> FALSE,
              was_done |-> FALSE, done_input |-> NoInput,
              done_value |-> NoValue, init_since_done |-> FALSE,
              steps_since_init |-> 0]

\* a freshly constructed optimizer on a build, its rule and seed among
\* rules_and_seeds
Constructed(rules_and_seeds) ==
    /\ \E objective \in Objectives, n_complexes \in 1..MaxComplexes,
          rs \in rules_and_seeds :
            sce = SceNew(objective, n_complexes, rs[1].k_stop,
                         rs[1].p_convergence_threshold,
                         rs[1].geometric_range_threshold,
                         rs[1].max_evaluations, rs[2])
    /\ build_nan \in {NaN, NegNaN}
    /\ ret = Returned("new", "ok", "", NoValue)
    /\ history = NoHistory

\* no library function has been called
NoCall == [op |-> "none"]

Init == Constructed(RulesAndSeeds) /\ twin = NoTwin /\ call = NoCall

\* a panic ends the process; MaxCalls bounds the length of a run
CanCall == ret.outcome # "panic" /\ history.calls < MaxCalls

\* a call of init
InitCall(input, schedule) ==
    /\ CanCall
    /\ \E r \in { SceInit(sce, build_nan, input.data, input.observations,
                          schedule) } :
          LET ok == r.ret.outcome = "ok"
          IN  /\ sce' = r.sce
              /\ ret' = r.ret
              /\ history' = [history EXCEPT
                    !.calls = @ + 1,
                    !.last_input = input,
                    !.initialised = @ \/ ok,
                    !.init_input = IF ok THEN input ELSE @,
                    !.consistent = IF ok THEN TRUE
                                   ELSE @ /\ input = history.init_input,
                    !.init_since_done = @ \/ (ok /\ history.was_done),
                    !.steps_since_init = IF ok THEN 0 ELSE @]
    /\ UNCHANGED build_nan

\* a call of step
StepCall(input) ==
    /\ CanCall
    /\ \E r \in { SceStep(sce, build_nan, input.data, input.observations) } :
          LET ok == r.ret.outcome = "ok"
              first_done == ok /\ r.ret.value.done /\ ~history.was_done
          IN  /\ sce' = r.sce
              /\ ret' = r.ret
              /\ history' = [history EXCEPT
                    !.calls = @ + 1,
                    !.last_input = input,
                    !.steps_run = IF ok /\ ~sce.done THEN @ + 1 ELSE @,
                    !.steps_done = IF sce.done THEN @ + 1 ELSE @,
                    !.steps_since_init = IF ok /\ ~sce.done THEN @ + 1 ELSE @,
                    !.consistent = @ /\ input = history.init_input,
                    !.was_done = @ \/ first_done,
                    !.done_input = IF first_done THEN input ELSE @,
                    !.done_value = IF first_done THEN r.ret.value ELSE @]
    /\ UNCHANGED build_nan

Next ==
    \E input \in Inputs :
        \/ \E schedule \in Schedules(Len(sce.population)) :
               InitCall(input, schedule) /\ UNCHANGED <<twin, call>>
        \/ StepCall(input) /\ UNCHANGED <<twin, call>>

Spec == Init /\ [][Next]_vars

\* ------------------------------------------------- two optimizers side by side
\* the second optimizer is constructed with the configuration and seed of the
\* first
TwinInit ==
    /\ Constructed({ <<DefaultRule, seed>> : seed \in 0..MaxSeed }
                   \cup { <<StoppingRule(1, 0, 0, 0), DefaultSeed>> })
    /\ twin = [sce |-> sce, ret |-> ret, differed |-> FALSE]
    /\ call = NoCall

\* the same call of init on the second optimizer, whose workers finish in an
\* order of their own
TwinInitCall(input, schedule, schedule2) ==
    \E r \in { SceInit(twin.sce, build_nan, input.data, input.observations,
                       schedule2) } :
        twin' = [sce |-> r.sce, ret |-> r.ret,
                 differed |-> twin.differed \/ schedule # schedule2]

\* the same call of step on the second optimizer
TwinStepCall(input) ==
    \E r \in { SceStep(twin.sce, build_nan, input.data, input.observations) } :
        twin' = [twin EXCEPT !.sce = r.sce, !.ret = r.ret]

TwinNext ==
    \E input \in Inputs :
        \/ \E schedule, schedule2 \in Schedules(Len(sce.population)) :
               /\ InitCall(input, schedule)
               /\ TwinInitCall(input, schedule, schedule2)
               /\ UNCHANGED call
        \/ StepCall(input) /\ TwinStepCall(input) /\ UNCHANGED call

TwinSpec == TwinInit /\ [][TwinNext]_vars

\* ------------------------------------------------------------ snow module
\* the resolution of the snow arithmetic: the three decimals of the
\* temperature gradient table; temperatures, depths of water and the
\* dimensionless parameters and fractions are all counted in thousandths,
\* products and quotients are rounded down
Milli == 1000

\* the number of parameters cemaneige::simulate destructures (ctg, kf, qnbv)
NSnowParams == 3

\* cemaneige::init: the bounds of ctg, kf and qnbv
snow_init_bounds == << <<0, Milli>>, <<0, 20 * Milli>>, <<50 * Milli, 800 * Milli>> >>

\* the altitudinal temperature gradient of each day of the year
TEMPERATURE_GRADIENT == <<
    -376, -374, -371, -368, -366, -363, -361, -358, -355, -353, -350, -348,
    -345, -343, -340, -337, -335, -332, -329, -327, -324, -321, -319, -316,
    -313, -311, -308, -305, -303, -300, -297, -295, -292, -289, -287, -284,
    -281, -279, -276, -273, -271, -268, -265, -263, -260, -262, -264, -266,
    -268, -270, -272, -274, -277, -279, -281, -283, -285, -287, -289, -291,
    -293, -295, -297, -299, -301, -303, -306, -308, -310, -312, -314, -316,
    -318, -320, -323, -326, -330, -333, -336, -339, -343, -346, -349, -352,
    -355, -359, -362, -365, -368, -372, -375, -378, -381, -385, -388, -391,
    -394, -397, -401, -404, -407, -410, -414, -417, -420, -420, -421, -421,
    -421, -422, -422, -422, -423, -423, -423, -424, -424, -424, -425, -425,
    -425, -426, -426, -426, -427, -427, -427, -428, -428, -428, -429, -429,
    -429, -430, -430, -428, -425, -423, -421, -419, -416, -414, -412, -410,
    -407, -405, -403, -401, -398, -396, -394, -392, -389, -387, -385, -383,
    -380, -378, -376, -374, -371, -369, -367, -365, -362, -360, -362, -365,
    -367, -369, -372, -374, -376, -379, -381, -383, -386, -388, -390, -393,
    -395, -397, -400, -402, -404, -407, -409, -411, -414, -416, -418, -421,
    -423, -425, -428, -430, -431, -431, -432, -433, -433, -434, -435, -435,
    -436, -436, -437, -438, -438, -439, -440, -440, -441, -442, -442, -443,
    -444, -444, -445, -445, -446, -447, -447, -448, -449, -449, -450, -448,
    -447, -445, -444, -442, -440, -439, -437, -435, -434, -432, -431, -429,
    -427, -426, -424, -423, -421, -419, -418, -416, -415, -413, -411, -410,
    -408, -406, -405, -403, -402, -400, -403, -405, -408, -411, -413, -416,
    -419, -421, -424, -427, -429, -432, -435, -437, -440, -443, -445, -448,
    -451, -453, -456, -459, -461, -464, -467, -469, -472, -475, -477, -480,
    -482, -483, -485, -486, -488, -490, -491, -493, -495, -496, -498, -499,
    -501, -503, -504, -506, -507, -509, -511, -512, -514, -515, -517, -519,
    -520, -522, -524, -525, -527, -528, -530, -526, -523, -519, -515, -512,
    -508, -504, -501, -497, -493, -490, -486, -482, -479, -475, -471, -468,
    -464, -460, -457, -453, -449, -446, -442, -438, -435, -431, -427, -424,
    -420, -417, -415, -412, -410, -407, -405, -402, -399, -397, -394, -392,
    -389, -386, -384, -381, -379 >>

\* the solid fraction with its two constant branches exchanged
solid_fraction_exchanged(layer_temperature) ==
    IF layer_temperature > 3 * Milli THEN Milli
    ELSE IF layer_temperature < -Milli THEN 0
    ELSE Milli - (layer_temperature + Milli) \div 4

\* the share of a layer's precipitation that falls as snow (cemaneige.rs
\* 70-76)
solid_fraction(layer_temperature) ==
    IF layer_temperature > 3 * Milli THEN 0
    ELSE IF layer_temperature < -Milli THEN Milli
    ELSE Milli - (layer_temperature + Milli) \div 4

\* the temperature of every layer on a day of gradient theta (cemaneige.rs
\* 37-40 and 65); elevations are whole metres
LayerTemperatures(metadata, theta, temp_t) ==
    Vec([i \in 1..Len(metadata.elevation_layers) |->
        ((metadata.elevation_layers[i] - metadata.median_elevation) * theta)
            \div 100 + temp_t])

\* the share of the day's precipitation a layer receives: beta = 0, so every
\* weight is exp(0) = 1 and the normalization is the number of layers
\* (cemaneige.rs 42-46 and 68)
LayerPrecipitation(metadata, precip_t) ==
    (precip_t * Milli) \div (Len(metadata.elevation_layers) * Milli)

\* the first loop over the layers (cemaneige.rs 64-87): accumulation and
\* thermal state
Accumulate(ctg, st, layer_temp, layer_precip) ==
    LET n == Len(layer_temp)
        p_solid == Vec([i \in 1..n |->
                       (solid_fraction(layer_temp[i]) * layer_precip)
                           \div Milli])
    IN  [ snowpack |-> Vec([i \in 1..n |-> st.snowpack[i] + p_solid[i]]),
          thermal_state |->
              Vec([i \in 1..n |->
                  Min2((st.thermal_state[i] * ctg
                        + layer_temp[i] * (Milli - ctg)) \div Milli, 0)]),
          total_liquid |->
              SumTo(Vec([i \in 1..n |-> layer_precip - p_solid[i]]), n) ]

\* the melt of one layer (cemaneige.rs 92-104); a pack over a threshold of
\* zero is an infinite or undefined ratio whose minimum with 1 is 1 unless
\* the pack is negative
LayerMelt(kf, qnbv, snowpack, thermal_state, layer_temperature) ==
    LET potential == IF thermal_state >= 0 /\ layer_temperature > 0
                     THEN Min2(snowpack, (layer_temperature * kf) \div Milli)
                     ELSE 0
        g_threshold == (qnbv * 9) \div 10
        fnts == IF g_threshold = 0
                THEN (IF snowpack < 0 THEN NegInf ELSE Milli)
                ELSE Min2((snowpack * Milli) \div g_threshold, Milli)
        vmin == Milli \div 10
        melt_factor == (fnts * (Milli - vmin)) \div Milli + vmin
    IN  (potential * melt_factor) \div Milli

\* the second loop over the layers (cemaneige.rs 89-106) and the push of the
\* day's effective precipitation (108)
Melt(kf, qnbv, acc, layer_temp) ==
    LET n == Len(layer_temp)
        snow_melt == Vec([i \in 1..n |->
                         LayerMelt(kf, qnbv, acc.snowpack[i],
                                   acc.thermal_state[i], layer_temp[i])])
    IN  [ snowpack |-> Vec([i \in 1..n |-> acc.snowpack[i] - snow_melt[i]]),
          thermal_state |-> acc.thermal_state,
          total_melt |-> SumTo(snow_melt, n),
          effective |-> acc.total_liquid + SumTo(snow_melt, n) ]

\* one pass of the loop over the timesteps (cemaneige.rs 56-109)
SnowDay(params, data, metadata, t, st) ==
    LET theta == TEMPERATURE_GRADIENT[((data.day_of_year[t] - 1) % 365) + 1]
        layer_temp == LayerTemperatures(metadata, theta, data.temperature[t])
    IN  Melt(params[2], params[3],
             Accumulate(params[1], st, layer_temp,
                        LayerPrecipitation(metadata, data.precipitation[t])),
             layer_temp)

\* the run extended by the outcome of one more day; snowpack and melt keep
\* the packs and the melt total of every day
SnowPushed(run, day) ==
    [ snowpack |-> Append(run.snowpack, day.snowpack),
      thermal_state |-> day.thermal_state,
      melt |-> Append(run.melt, day.total_melt),
      effective_precipitation |->
          Append(run.effective_precipitation, day.effective) ]

\* the state of the last day of a run
LastDay(run, n_layers) ==
    [ snowpack |-> IF run.snowpack = <<>>
                   THEN Vec([i \in 1..n_layers |-> 0])
                   ELSE run.snowpack[Len(run.snowpack)],
      thermal_state |-> run.thermal_state ]

RECURSIVE SnowRun(_, _, _, _)
\* the loop over the first t timesteps, from an empty pack and a thermal
\* state of zero (cemaneige.rs 53-54)
SnowRun(params, data, metadata, t) ==
    IF t = 0
    THEN [ snowpack |-> <<>>,
           thermal_state |->
               Vec([i \in 1..Len(metadata.elevation_layers) |-> 0]),
           melt |-> <<>>, effective_precipitation |-> <<>> ]
    ELSE LET run == SnowRun(params, data, metadata, t - 1)
         IN  SnowPushed(run,
                 SnowDay(params, data, metadata, t,
                         LastDay(run, Len(metadata.elevation_layers))))

\* cemaneige::simulate: ParamsMismatch unless it is given exactly three
\* parameters, otherwise the effective precipitation of every day
snow_simulate(params, data, metadata) ==
    IF Len(params) # NSnowParams
    THEN [outcome |-> "err", error |-> "ParamsMismatch", value |-> <<>>,
          snowpack |-> <<>>, melt |-> <<>>]
    ELSE LET run == SnowRun(params, data, metadata, Len(data.precipitation))
         IN  [outcome |-> "ok", error |-> "",
              value |-> run.effective_precipitation,
              snowpack |-> run.snowpack, melt |-> run.melt]

\* ------------------------------------------------------------- composition
\* Data::new: the four series of a forcing have one length
Data_new(precipitation, temperature, pet, day_of_year) ==
    IF \/ Len(precipitation) # Len(temperature)
       \/ Len(precipitation) # Len(pet)
       \/ Len(precipitation) # Len(day_of_year)
    THEN [ok |-> FALSE, error |-> "LengthMismatch", value |-> <<>>]
    ELSE [ok |-> TRUE, error |-> "",
          value |-> [precipitation |-> precipitation,
                     temperature |-> temperature, pet |-> pet,
                     day_of_year |-> day_of_year]]

\* a new forcing that shares nothing but the lengths with the caller's
with_precipitation_fresh(data, precipitation) ==
    [ precipitation |-> precipitation,
      temperature |-> Vec([t \in 1..Len(data.temperature) |-> 0]),
      pet |-> Vec([t \in 1..Len(data.pet) |-> 0]),
      day_of_year |-> Vec([t \in 1..Len(data.day_of_year) |-> 1]) ]

\* Data::with_precipitation: the precipitation replaced, the shared series
\* kept
with_precipitation(data, precipitation) ==
    [ precipitation |-> precipitation,
      temperature |-> data.temperature, pet |-> data.pet,
      day_of_year |-> data.day_of_year ]

\* the runoff model behind the interface of the registry: the outcome of
\* simulate as a call result
climate_simulate(params, data, metadata) ==
    LET r == simulate(params, data)
    IN  [outcome |-> IF r.ok THEN "ok" ELSE "err", error |-> r.error,
         value |-> r.value]

\* the result of the composed simulate next to the forcing the caller lent
\* it, as the caller finds it afterwards
Lent(result, data) ==
    [outcome |-> result.outcome, error |-> result.error,
     value |-> result.value, data |-> data]

\* compose_simulate from the snow result on (model.rs 139-143): the forcing
\* with the replaced precipitation is a new value that shadows the caller's
Composed(climate_params, data, metadata, snow) ==
    IF snow.outcome # "ok"
    THEN Lent([outcome |-> snow.outcome, error |-> snow.error,
               value |-> <<>>], data)
    ELSE Lent(climate_simulate(climate_params,
                  with_precipitation(data, snow.value), metadata), data)

\* the closure compose_simulate returns: slicing a vector shorter than
\* n_snow_params panics (model.rs 137)
compose_simulate(n_snow_params, params, data, metadata) ==
    IF Len(params) < n_snow_params
    THEN Lent([outcome |-> "panic", error |-> "", value |-> <<>>], data)
    ELSE Composed(SubSeq(params, n_snow_params + 1, Len(params)), data,
                  metadata,
                  snow_simulate(SubSeq(params, 1, n_snow_params), data,
                                metadata))

\* compose_init: the two bounds tables, the snow rows first
compose_init == snow_init_bounds \o init_bounds

\* --------------------------------------------------------------- registries
\* str::to_lowercase on the names the registries are asked for
to_lowercase(name) ==
    CASE name = "GR4J" -> "gr4j"
      [] name = "Gr4j" -> "gr4j"
      [] name = "CEMANEIGE" -> "cemaneige"
      [] name = "CemaNeige" -> "cemaneige"
      [] name = "BUCKET" -> "bucket"
      [] OTHER -> name

\* climate::get_model
climate_get_model(name) ==
    IF to_lowercase(name) = "gr4j"
    THEN [ok |-> TRUE, error |-> "", bounds |-> init_bounds]
    ELSE [ok |-> FALSE, error |-> "UnknownModel", bounds |-> <<>>]

\* snow::get_model
snow_get_model(model) ==
    IF model = "cemaneige"
    THEN [ok |-> TRUE, error |-> "", bounds |-> snow_init_bounds]
    ELSE [ok |-> FALSE, error |-> "WrongModel", bounds |-> <<>>]

\* no snow model is asked for
None == "None"

\* the lookup of Sce::new (sce.rs 58-76): the snow registry is asked first
\* when there is a snow model; the result carries the bounds table and the
\* number of snow parameters of the selected simulate
SceNewModel(climate_model, snow_model) ==
    LET snow == snow_get_model(snow_model)
        climate == climate_get_model(climate_model)
    IN  IF snow_model # None /\ ~snow.ok
        THEN [ok |-> FALSE, error |-> snow.error, bounds |-> <<>>,
              n_snow_params |-> 0]
        ELSE IF ~climate.ok
        THEN [ok |-> FALSE, error |-> climate.error, bounds |-> <<>>,
              n_snow_params |-> 0]
        ELSE IF snow_model # None
        THEN [ok |-> TRUE, error |-> "", bounds |-> compose_init,
              n_snow_params |-> Len(snow_init_bounds)]
        ELSE [ok |-> TRUE, error |-> "", bounds |-> climate.bounds,
              n_snow_params |-> 0]

\* ------------------------------------------------- the metrics of utils.rs
\* utils::calculate_rmse: NaN, not an error, for series of two lengths
utils_calculate_rmse(nan, o, p) ==
    IF Len(o) # Len(p) THEN NaN ELSE calculate_rmse(nan, o, p)

\* utils::calculate_nse
utils_calculate_nse(nan, o, p) ==
    IF Len(o) # Len(p) THEN NaN ELSE calculate_nse(nan, o, p)

\* utils::calculate_kge
utils_calculate_kge(nan, o, p) ==
    IF Len(o) # Len(p) THEN NaN ELSE calculate_kge(nan, o, p)

\* a metric of metrics.rs by name: LengthMismatch from check_lengths, else
\* the value
metrics_calculate(metric, nan, o, p) ==
    IF ~check_lengths(o, p)
    THEN [outcome |-> "err", error |-> "LengthMismatch", value |-> <<>>]
    ELSE [outcome |-> "ok", error |-> "",
          value |-> << CASE metric = "rmse" -> calculate_rmse(nan, o, p)
                         [] metric = "nse" -> calculate_nse(nan, o, p)
                         [] OTHER -> calculate_kge(nan, o, p) >>]

\* a metric of utils.rs by name: always a number
utils_calculate(metric, nan, o, p) ==
    [outcome |-> "ok", error |-> "",
     value |-> << CASE metric = "rmse" -> utils_calculate_rmse(nan, o, p)
                    [] metric = "nse" -> utils_calculate_nse(nan, o, p)
                    [] OTHER -> utils_calculate_kge(nan, o, p) >>]

\* ------------------------------------------------ the routing of gr4j.rs
\* The unit hydrographs and their buffers.  x4 is given in tenths of a day;
\* an ordinate is a whole number of UhScale-ths, rounded down; a buffer
\* entry is a whole number of tenths of an ordinate times the routing input.
UhScale == 16
RoutingSteps == 5     \* timesteps of a routing run
MaxRouting == 2       \* largest routing input of a timestep

RECURSIVE Gcd(_, _)
Gcd(a, b) == IF b = 0 THEN a ELSE Gcd(b, a % b)

\* (p / q).powf(1.25) for 0 < p <= q, in UhScale-ths: the largest k with
\* (k / UhScale)^4 <= (p / q)^5
powf_1_25(p, q) ==
    LET g == Gcd(p, q)
        pr == p \div g
        qr == q \div g
        reached(k) == k * k * k * k * qr * qr * qr * qr * qr
                      <= UhScale * UhScale * UhScale * UhScale
                         * pr * pr * pr * pr * pr
    IN  CHOOSE k \in 0..UhScale :
            reached(k) /\ (k = UhScale \/ ~reached(k + 1))

\* gr4j::create_unit_hydrographs: the ordinates s(i) - s(i - 1) for
\* i = 1 .. ceil(x4) and i = 1 .. ceil(2 x4)
create_unit_hydrographs(x4) ==
    LET s1(i) == IF i = 0 THEN 0
                 ELSE IF 10 * i >= x4 THEN UhScale
                 ELSE powf_1_25(10 * i, x4)
        s2(i) == IF i = 0 THEN 0
                 ELSE IF 10 * i >= 2 * x4 THEN UhScale
                 ELSE IF 10 * i < x4 THEN powf_1_25(10 * i, x4) \div 2
                 ELSE UhScale - (powf_1_25(2 * x4 - 10 * i, x4) \div 2)
        ceil(tenths) == (tenths + 9) \div 10
    IN  << Vec([i \in 1..ceil(x4) |-> s1(i) - s1(i - 1)]),
           Vec([i \in 1..ceil(2 * x4) |-> s2(i) - s2(i - 1)]) >>

\* update_hydrographs adding the new input without the shift of
\* hydrographs[1..]
update_hydrographs_in_place(routing_precipitation, hydrographs, unit_hydrographs) ==
    LET added(h, u, share) ==
            Vec([i \in 1..Min2(Len(h), Len(u)) |->
                    h[i] + share * routing_precipitation * u[i]])
    IN  << added(hydrographs[1], unit_hydrographs[1], 9),
           added(hydrographs[2], unit_hydrographs[2], 1) >>

\* gr4j::update_hydrographs: hydrographs[1..] chained with one 0.0, zipped
\* with the ordinates, 0.9 and 0.1 of the input times the ordinate added
update_hydrographs(routing_precipitation, hydrographs, unit_hydrographs) ==
    LET shifted(h) == Tail(h) \o <<0>>
        added(h, u, share) ==
            Vec([i \in 1..Min2(Len(h), Len(u)) |->
                    h[i] + share * routing_precipitation * u[i]])
    IN  << added(shifted(hydrographs[1]), unit_hydrographs[1], 9),
           added(shifted(hydrographs[2]), unit_hydrographs[2], 1) >>

\* gr4j::update_routing as far as the buffers go: the buffers after the
\* update and the two values read at their index 0.  The routing store and
\* the flows computed from q9 and q1 do not feed back into the buffers.
update_routing(hydrographs, unit_hydrographs, routing_precipitation) ==
    LET updated == update_hydrographs(routing_precipitation, hydrographs,
                                      unit_hydrographs)
    IN  [hydrographs |-> updated, q9 |-> updated[1][1], q1 |-> updated[2][1]]

RECURSIVE RoutingLoop(_, _, _, _)
\* the loop of gr4j::simulate (lines 41-53) over the routing inputs from
\* timestep t on: what update_routing returned at each timestep
RoutingLoop(unit_hydrographs, hydrographs, routing_precipitations, t) ==
    IF t > Len(routing_precipitations) THEN <<>>
    ELSE LET routed == update_routing(hydrographs, unit_hydrographs,
                                      routing_precipitations[t])
         IN  <<routed>> \o RoutingLoop(unit_hydrographs, routed.hydrographs,
                                         routing_precipitations, t + 1)

\* gr4j::simulate (lines 35-53): buffers of zeros as long as the unit
\* hydrographs, then the loop
RoutingRun(x4, routing_precipitations) ==
    LET unit_hydrographs == create_unit_hydrographs(x4)
    IN  RoutingLoop(unit_hydrographs,
            << Vec([i \in 1..Len(unit_hydrographs[1]) |-> 0]),
               Vec([i \in 1..Len(unit_hydrographs[2]) |-> 0]) >>,
            routing_precipitations, 1)

\* ------------------------------------------------------ the library calls
\* the series a forcing is built from: precipitation in whole millimetres,
\* a potential evapotranspiration of half a millimetre, air temperatures
\* that are warm, mild, or freezing on the first day only, and days of the
\* year at the start and across the end of the table
LibPrecipitations ==
    { Vec([t \in Timesteps |-> t * Milli]),
      Vec([t \in Timesteps |-> (NTimesteps + 3 - t) * Milli]) }
LibTemperatures ==
    { Vec([t \in Timesteps |-> 10 * Milli]),
      Vec([t \in Timesteps |-> 4 * Milli]),
      Vec([t \in Timesteps |-> IF t = 1 THEN -5 * Milli ELSE 10 * Milli]) }
LibPet == Vec([t \in Timesteps |-> Milli \div 2])
LibDays == { Vec([t \in Timesteps |-> t]), Vec([t \in Timesteps |-> 364 + t]) }

\* the forcings Data::new accepts
LibForcings ==
    { Data_new(precipitation, temperature, LibPet, day_of_year).value :
          precipitation \in LibPrecipitations,
          temperature \in LibTemperatures, day_of_year \in LibDays }

\* catchments of no, one, two and three elevation layers around a median of
\* 500 m
LibMetadata ==
    { [elevation_layers |-> <<>>, median_elevation |-> 500],
      [elevation_layers |-> <<500>>, median_elevation |-> 500],
      [elevation_layers |-> <<400, 600>>, median_elevation |-> 500],
      [elevation_layers |-> <<200, 500, 800>>, median_elevation |-> 500] }

\* snow parameters <<ctg, kf, qnbv>>: the defaults, corners of the bounds,
\* and vectors outside the bounds (a negative kf, a ctg above one)
LibSnowParams ==
    { <<Milli \div 4, (374 * Milli) \div 100, 350 * Milli>>,
      <<0, 0, 0>>,
      <<Milli, 20 * Milli, 50 * Milli>>,
      <<Milli \div 4, -Milli, 350 * Milli>>,
      <<2 * Milli, (374 * Milli) \div 100, 350 * Milli>> }

\* parameter vectors of every length from none to one more than the
\* composed model takes
LibParams ==
    { TrueParams }
    \cup UNION { { SubSeq(sp \o TrueParams, 1, k) :
                       k \in 0..(NSnowParams + NParams) }
                 \cup { sp \o TrueParams \o <<0>> } : sp \in LibSnowParams }

\* the simulate functions a caller can select
LibModels == {"gr4j", "cemaneige", "composed"}

\* the simulate of the selected model
SimulateModel(model, params, data, metadata) ==
    CASE model = "gr4j" -> climate_simulate(params, data, metadata)
      [] model = "cemaneige" -> snow_simulate(params, data, metadata)
      [] OTHER -> compose_simulate(Len(snow_init_bounds), params, data,
                                   metadata)

\* the number of parameters of the selected model
ParamCount(model) ==
    CASE model = "gr4j" -> NParams
      [] model = "cemaneige" -> NSnowParams
      [] OTHER -> NSnowParams + NParams

\* observed and simulated series of lengths 0 to 3
LibSeries == { <<>>, <<1>>, <<3>>, <<1, 2>>, <<2, 1>>, <<0, 0>>, <<1, 2, 4>> }

\* the two modules that export the metrics
MetricModules == {"metrics", "utils"}

\* names given to the registries
ModelNames == {"gr4j", "GR4J", "Gr4j", "cemaneige", "CEMANEIGE", "bucket", ""}

\* no optimizer has been constructed
NoSce == <<>>

LibInit ==
    /\ sce = NoSce
    /\ build_nan \in {NaN, NegNaN}
    /\ ret = Returned("none", "ok", "", NoValue)
    /\ history = NoHistory
    /\ twin = NoTwin
    /\ call = NoCall

\* a call of the simulate of a model
SimulateCall(model, params, data, metadata) ==
    /\ call.op = "none"
    /\ call' = [op |-> "simulate", model |-> model, params |-> params,
                data |-> data, metadata |-> metadata,
                result |-> SimulateModel(model, params, data, metadata)]
    /\ UNCHANGED <<sce, build_nan, ret, history, twin>>

\* a call of a metric function of one of the two modules
MetricCall(module, metric, observations, simulations) ==
    /\ call.op = "none"
    /\ call' = [op |-> "metric", module |-> module, metric |-> metric,
                observations |-> observations, simulations |-> simulations,
                result |-> IF module = "metrics"
                           THEN metrics_calculate(metric, build_nan,
                                                  observations, simulations)
                           ELSE utils_calculate(metric, build_nan,
                                                observations, simulations)]
    /\ UNCHANGED <<sce, build_nan, ret, history, twin>>

\* a call of Sce::new with the names of a runoff and of a snow model
NewCall(climate_model, snow_model, objective, n_complexes) ==
    /\ call.op = "none"
    /\ \E found \in { SceNewModel(climate_model, snow_model) } :
          /\ sce' = IF found.ok
                    THEN SceNewFrom(found.bounds, objective, n_complexes,
                             DefaultRule.k_stop,
                             DefaultRule.p_convergence_threshold,
                             DefaultRule.geometric_range_threshold,
                             DefaultRule.max_evaluations, DefaultSeed)
                    ELSE sce
          /\ ret' = IF found.ok THEN Returned("new", "ok", "", NoValue)
                    ELSE Returned("new", "err", found.error, NoValue)
    /\ call' = [op |-> "new", climate_model |-> climate_model,
                snow_model |-> snow_model]
    /\ UNCHANGED <<build_nan, history, twin>>

\* a call of select_simplex_indices for a complex of 2P + 1 rows and a
\* simplex of P + 1 rows (sce.rs 125-127), the generator in any state
SelectCall(n_params, rng) ==
    /\ call.op = "none"
    /\ call' = [op |-> "select", n_per_complex |-> 2 * n_params + 1,
                n_simplex |-> n_params + 1, rng |-> rng,
                result |-> select_simplex_indices(2 * n_params + 1,
                                                  n_params + 1, rng)]
    /\ UNCHANGED <<sce, build_nan, ret, history, twin>>

\* the optimizers a pass is made on: initialised on an input of matching
\* lengths
Initialised(objective, n_complexes, input) ==
    SceInit(SceNew(objective, n_complexes, DefaultRule.k_stop,
                   DefaultRule.p_convergence_threshold,
                   DefaultRule.geometric_range_threshold,
                   DefaultRule.max_evaluations, DefaultSeed),
            build_nan, input.data, input.observations,
            Vec([i \in 1..(n_complexes * (2 * NParams + 1)) |-> i]))

\* one pass of the inner loop of evolve_complexes (sce.rs 544-578) on complex
\* igs of the complexes of an optimizer after an init on input, the generator
\* in any state.  What the pass selected and what evolve_complex_step
\* returned in it are recorded with the result.
PassCall(objective, n_complexes, input, igs, rng) ==
    /\ call.op = "none"
    /\ \E made \in { Initialised(objective, n_complexes, input) } :
       /\ made.ret.outcome = "ok"
       /\ \E s \in { made.sce } :
          \E parts \in { partition_into_complexes(s.population, s.objectives,
                                                  s.n_complexes) } :
          \E ctx \in { [lower_bounds |-> s.lower_bounds,
                        upper_bounds |-> s.upper_bounds,
                        nan |-> build_nan, data |-> input.data,
                        observations |-> input.observations,
                        objective_idx |-> objective_idx(s.objective),
                        is_minimization |-> is_minimization(s.objective),
                        n_complexes |-> igs,
                        n_per_complex |-> s.n_per_complex,
                        n_simplex |-> s.n_simplex,
                        n_evolution_steps |-> 1] } :
          \E selected \in { select_simplex_indices(s.n_per_complex,
                                                   s.n_simplex, rng) } :
             call' = [op |-> "pass", objective |-> s.objective, igs |-> igs,
                      complexes |-> parts.complexes,
                      complex_objectives |-> parts.complex_objectives,
                      ctx |-> ctx, rng |-> rng, selected |-> selected,
                      step |-> evolve_complex_step(
                          Vec([j \in 1..s.n_simplex |->
                              parts.complexes[igs][selected.indices[j] + 1]]),
                          Vec([j \in 1..s.n_simplex |->
                              parts.complex_objectives[igs]
                                  [selected.indices[j] + 1]]),
                          ctx, selected.rng),
                      result |-> evolve_complexes(parts.complexes,
                                     parts.complex_objectives, igs, 0, ctx,
                                     rng)]
    /\ UNCHANGED <<sce, build_nan, ret, history, twin>>

\* values of x4 inside the bounds of gr4j::init (0.8 to 10 days), in tenths
LibX4 == {8, 10, 15, 25}

\* a run of the routing of gr4j over RoutingSteps timesteps
RoutingCall(x4, routing_precipitations) ==
    /\ call.op = "none"
    /\ call' = [op |-> "routing", x4 |-> x4,
                routing_precipitations |-> routing_precipitations,
                unit_hydrographs |-> create_unit_hydrographs(x4),
                result |-> RoutingRun(x4, routing_precipitations)]
    /\ UNCHANGED <<sce, build_nan, ret, history, twin>>

LibNext ==
    \/ \E model \in LibModels, params \in LibParams, data \in LibForcings,
          metadata \in LibMetadata :
            SimulateCall(model, params, data, metadata)
    \/ \E module \in MetricModules, metric \in Objectives,
          observations \in LibSeries, simulations \in LibSeries :
            MetricCall(module, metric, observations, simulations)
    \/ \E climate_model \in ModelNames, snow_model \in ModelNames \cup {None},
          objective \in Objectives, n_complexes \in 1..MaxComplexes :
            NewCall(climate_model, snow_model, objective, n_complexes)
    \/ \E n_params \in 1..(NParams + 1), seed \in 0..(RngLevels * RngLevels - 1) :
            SelectCall(n_params, seed_from_u64(seed))
    \/ \E objective \in Objectives, n_complexes \in 1..MaxComplexes,
          input \in Inputs, seed \in 0..(RngLevels * RngLevels - 1) :
       \E igs \in 1..n_complexes :
            PassCall(objective, n_complexes, input, igs, seed_from_u64(seed))
    \/ \E x4 \in LibX4,
          routing_precipitations \in [1..RoutingSteps -> 0..MaxRouting] :
            RoutingCall(x4, Vec(routing_precipitations))

LibSpec == LibInit /\ [][LibNext]_vars

\* ------------------------------------------------------------------ claims
\* the transition is a call of step
StepMade == history'.calls = history.calls + 1 /\ ret'.op = "step"

\* the selected objective value of population row 0
BestObjective(s) == s.objectives[1][objective_idx(s.objective)]

\* C1: a step that returns an error leaves population, objective table,
\* criteria history, stored best parameters, evaluation count and done flag
\* as they were before the call.
C1_FailedStepKeepsState ==
    [][(StepMade /\ ret'.outcome = "err")
        => /\ sce'.population = sce.population
           /\ sce'.objectives = sce.objectives
           /\ sce'.criteria = sce.criteria
           /\ sce'.params = sce.params
           /\ sce'.n_calls = sce.n_calls
           /\ sce'.done = sce.done]_vars

\* a step has returned LengthMismatch and the optimizer holds no population
C1_FailedStepEmptied ==
    /\ ret.op = "step" /\ ret.outcome = "err" /\ ret.error = "LengthMismatch"
    /\ sce.population = <<>> /\ sce.objectives = <<>>

\* C2: no call of init or step panics (n_complexes >= 1 and k_stop >= 1 in
\* every configuration).
C2_NoCallPanics == ret.outcome # "panic"

\* C3: across a successful step made after an init, the selected objective
\* value of row 0 does not get worse (not greater for RMSE, not less for NSE
\* and KGE, as f64 comparisons).
C3_BestNeverWorse ==
    [][(StepMade /\ ret'.outcome = "ok" /\ history.initialised
        /\ sce.population # <<>>)
        => ~is_worse(BestObjective(sce'), BestObjective(sce),
                     is_minimization(sce.objective))]_vars

\* C3, amended: the same, when the step and every call since the last
\* successful init were given the forcing and observations of that init.
C3_BestNeverWorseSameInputs ==
    [][(StepMade /\ ret'.outcome = "ok" /\ history'.consistent
        /\ sce.population # <<>>)
        => ~is_worse(BestObjective(sce'), BestObjective(sce),
                     is_minimization(sce.objective))]_vars

\* two steps have run after an init on the same inputs and the best value
\* has strictly improved on that of the initial population
C3_TwoStepsImproved ==
    /\ ret.op = "step" /\ ret.outcome = "ok" /\ history.consistent
    /\ history.steps_run >= 2 /\ Len(sce.criteria) >= 3
    /\ is_worse(sce.criteria[1], BestObjective(sce),
                is_minimization(sce.objective))

\* C4: once a step has returned done = true, every later step returns
\* done = true, and the flag stays set.
C4_DoneIsSticky ==
    history.was_done
        => /\ sce.done
           /\ ret.op = "step" => (ret.outcome = "ok" /\ ret.value.done)

\* a step has returned done = true after an init that followed the first
\* done
C4_DoneAfterReinit ==
    /\ history.was_done /\ history.init_since_done /\ history.steps_done >= 1
    /\ ret.op = "step" /\ ret.value.done

\* C5: a step made when the optimizer is done, with the inputs of the step
\* that first returned done, returns the tuple of that step and leaves the
\* optimizer unchanged.
C5_DoneStepIdempotent ==
    [][(StepMade /\ sce.done /\ history'.last_input = history.done_input)
        => /\ ret'.outcome = "ok"
           /\ ret'.value = history.done_value
           /\ sce' = sce]_vars

\* C5, amended: the same, provided no init has succeeded since the step that
\* first returned done; any step made when done leaves the optimizer
\* unchanged.
C5_DoneStepIdempotentNoReinit ==
    [][(StepMade /\ sce.done)
        => /\ sce' = sce
           /\ (history'.last_input = history.done_input
               /\ ~history.init_since_done)
              => (ret'.outcome = "ok" /\ ret'.value = history.done_value)]_vars

\* a step was made when done, with the inputs of the first done step and no
\* init in between
C5_RepeatedDoneStep ==
    /\ history.was_done /\ history.steps_done >= 1
    /\ ~history.init_since_done
    /\ ret.op = "step" /\ history.last_input = history.done_input

\* C6: two optimizers of the same configuration and seed, given the same
\* calls, hold the same population, objective table and criteria history
\* after every call, and every call returns the same to both.
C6_TwinsAgree ==
    /\ twin.sce.population = sce.population
    /\ twin.sce.objectives = sce.objectives
    /\ twin.sce.criteria = sce.criteria
    /\ twin.ret = ret

\* both optimizers have run a step after an init whose workers finished in
\* different orders
C6_TwinsSteppedAfterDifferentSchedules ==
    /\ twin.differed /\ history.initialised
    /\ ret.op = "step" /\ ret.outcome = "ok" /\ history.steps_run >= 1

\* C7: after construction and after every successful init or step each
\* population row lies within [lower, upper] in every component.
C7_PopulationInBounds ==
    ret.outcome = "ok"
        => \A r \in 1..Len(sce.population) : \A i \in 1..Len(sce.lower_bounds) :
               /\ sce.lower_bounds[i] <= sce.population[r][i]
               /\ sce.population[r][i] <= sce.upper_bounds[i]

\* a step has evolved the population with evaluations inside evolution steps
C7_EvolvedPopulation ==
    /\ ret.op = "step" /\ ret.outcome = "ok" /\ history.steps_run >= 1
    /\ sce.n_calls > 0 /\ sce.population # <<>>

C9_RowsAreEvaluations ==
    LET data == history.init_input.data
        observations == history.init_input.observations
    IN  (history.consistent /\ ret.outcome = "ok")
        => /\ \A r \in 1..Len(sce.population) :
                  sce.objectives[r]
                      = Evaluate(build_nan, sce.population[r], data,
                                 observations).value
           /\ ret.op = "step"
              => /\ ret.value.best_params = sce.population[1]
                 /\ ret.value.best_simulation
                        = simulate(ret.value.best_params, data).value
                 /\ ret.value.best_objectives
                        = evaluate_simulation(build_nan, observations,
                              ret.value.best_simulation).value

\* two steps have run on the inputs of the init before them
C9_SteppedOnSameInputs ==
    /\ history.consistent /\ ret.op = "step" /\ ret.outcome = "ok"
    /\ history.steps_run >= 2 /\ sce.n_calls > 0

\* C10: every step that runs while not done raises the evaluation count by
\* at least n_complexes * (2P + 1), so after
\* max_evaluations \div (n_complexes * (2P + 1)) + 1 such steps the
\* optimizer is done.
C10_DoneWithinBudget ==
    LET n == sce.n_complexes * (2 * Len(sce.lower_bounds) + 1)
    IN  /\ sce.n_calls >= history.steps_run * n
        /\ history.steps_run >= (sce.max_evaluations \div n) + 1 => sce.done

\* the budget was exhausted by the last of the steps the bound allows, not
\* before
C10_DoneAtTheBound ==
    LET n == sce.n_complexes * (2 * Len(sce.lower_bounds) + 1)
    IN  /\ sce.max_evaluations > 0 /\ sce.done
        /\ history.steps_run = (sce.max_evaluations \div n) + 1
        /\ history.steps_run >= 2

\* C11: the relative-change test of a step evaluates to +infinity whenever
\* the criteria history, the entry of that step included, holds fewer than
\* k_stop + 1 entries (the step is the last call and no step has yet taken
\* the done branch, so sce.criteria is the history the test was given).
C11_ChangeInfiniteUntilWindowFull ==
    (ret.op = "step" /\ ret.outcome = "ok" /\ history.steps_done = 0
     /\ Len(sce.criteria) < sce.k_stop + 1)
        => criteria_change(build_nan, sce.criteria, sce.k_stop) = Inf

\* a step has set done on the relative-change test alone, over a history of
\* fewer than k_stop + 1 entries
C11_DoneOverShortHistory ==
    /\ ret.op = "step" /\ ret.outcome = "ok" /\ history.steps_done = 0
    /\ Len(sce.criteria) < sce.k_stop + 1
    /\ sce.done
    /\ sce.n_calls <= sce.max_evaluations
    /\ ~FLt(compute_normalized_geometric_range(sce.population,
                sce.lower_bounds, sce.upper_bounds),
            sce.geometric_range_threshold)

\* C12: the normalized geometric range of the population never exceeds 1,
\* and a step of an optimizer whose geometric_range_threshold is greater
\* than 1 returns done = true.
C12_DoneWhenRangeThresholdAboveOne ==
    ret.outcome = "ok"
        => /\ compute_normalized_geometric_range(sce.population,
                  sce.lower_bounds, sce.upper_bounds) <= Scale
           /\ (ret.op = "step" /\ sce.geometric_range_threshold > Scale)
                  => ret.value.done

\* the first step after an init has returned done on the geometric range
\* alone: the budget is not exhausted, the relative-change threshold is 0 and
\* the population is spread in every parameter
C12_DoneOnRangeAlone ==
    /\ ret.op = "step" /\ ret.outcome = "ok" /\ ret.value.done
    /\ history.initialised /\ history.steps_run = 1 /\ history.steps_done = 0
    /\ sce.geometric_range_threshold > Scale
    /\ sce.p_convergence_threshold = 0
    /\ sce.n_calls <= sce.max_evaluations
    /\ compute_normalized_geometric_range(sce.population,
           sce.lower_bounds, sce.upper_bounds) > 0

\* C13: after an init or a step, a row whose selected objective value is
\* NaN is not at row 0 ahead of a row whose value is a number.
C13_NaNNeverBest ==
    (ret.outcome = "ok" /\ ret.op \in {"init", "step"})
        => (IsNaN(BestObjective(sce))
            => \A r \in 1..Len(sce.objectives) :
                   IsNaN(sce.objectives[r][objective_idx(sce.objective)]))

\* a step has returned a NaN as the best value of its objective while the
\* population holds a row whose value is a number
C13_StepReturnedNaNBest ==
    /\ ret.op = "step" /\ ret.outcome = "ok" /\ history.initialised
    /\ history.steps_run >= 1
    /\ IsNaN(ret.value.best_objectives[objective_idx(sce.objective)])
    /\ \E r \in 1..Len(sce.objectives) :
           IsFinite(sce.objectives[r][objective_idx(sce.objective)])

\* the transition is a call of init
InitMade == history'.calls = history.calls + 1 /\ ret'.op = "init"

\* C14: an init that returns an error leaves population, objective table,
\* criteria history, stored best parameters and the random generator as
\* they were before the call.
C14_FailedInitKeepsState ==
    [][(InitMade /\ ret'.outcome = "err")
        => /\ sce'.population = sce.population
           /\ sce'.objectives = sce.objectives
           /\ sce'.criteria = sce.criteria
           /\ sce'.params = sce.params
           /\ sce'.rng = sce.rng]_vars

\* the first call on a constructed optimizer was an init that failed, and
\* the generator is no longer the one construction left (the seed of a
\* constructed optimizer is the increment of its generator)
C14_FailedInitAdvancedGenerator ==
    /\ history.calls = 1 /\ ret.op = "init" /\ ret.outcome = "err"
    /\ ret.error = "LengthMismatch"
    /\ sce.rng # SceNew(sce.objective, sce.n_complexes, sce.k_stop,
                        sce.p_convergence_threshold,
                        sce.geometric_range_threshold,
                        sce.max_evaluations, sce.rng.inc).rng

\* C19: the outcome of init is the same whichever order the parallel workers
\* finish in: the optimizer and the result are those of every schedule, the
\* generator has advanced by the draws of the new population and by nothing
\* else, every objective row is the evaluation of its own population row, and
\* a failure returns the error of the lowest-index failing row.  The
\* evaluation takes place when init has a population to draw, that is when
\* the population table has rows.
C19_EvaluationIndependentOfSchedule ==
    [][(InitMade /\ Len(sce.population) > 0) =>
        \A input \in { history'.last_input } :
        \A generated \in { generate_initial_population(Len(sce.population),
                               sce.lower_bounds, sce.upper_bounds, sce.rng) } :
        \A rows \in { Vec([i \in 1..Len(generated.population) |->
                          Evaluate(build_nan, generated.population[i],
                                   input.data, input.observations)]) } :
        \A failed \in { { i \in 1..Len(rows) : ~rows[i].ok } } :
            /\ \A schedule \in Schedules(Len(sce.population)) :
                  \A r \in { SceInit(sce, build_nan, input.data,
                                     input.observations, schedule) } :
                      r.sce = sce' /\ r.ret = ret'
            /\ sce'.rng = Advance(sce.rng,
                              Len(sce.population) * Len(sce.lower_bounds))
            /\ ret'.outcome = "ok" =>
                  /\ failed = {}
                  /\ \A r \in 1..Len(sce'.population) :
                        \E i \in 1..Len(rows) :
                            /\ sce'.population[r] = generated.population[i]
                            /\ sce'.objectives[r] = rows[i].value
            /\ ret'.outcome # "ok" =>
                  /\ failed # {}
                  /\ ret'.outcome = "err"
                  /\ \E i \in failed :
                        /\ \A j \in failed : i <= j
                        /\ ret'.error = rows[i].error]_vars

\* a first init of the largest population succeeded and its sort moved
\* a drawn row ahead of the midpoint written to row 0 before the evaluation
C19_InitReorderedRows ==
    /\ history.calls = 1 /\ ret.op = "init" /\ ret.outcome = "ok"
    /\ sce.n_complexes = MaxComplexes
    /\ sce.population[1]
          # Vec([i \in 1..Len(sce.lower_bounds) |->
                    (sce.lower_bounds[i] + sce.upper_bounds[i]) \div 2])

C16_WrongLengthIsParamsMismatch ==
    (call.op = "simulate" /\ Len(call.params) # ParamCount(call.model)) =>
        /\ call.result.outcome = "err"
        /\ call.result.error = "ParamsMismatch"
        /\ call.result.value = <<>>

\* the composed simulate was given fewer than P_snow parameters and panicked
C16_ShortVectorPanicked ==
    /\ call.op = "simulate" /\ call.model = "composed"
    /\ Len(call.params) < NSnowParams
    /\ call.result.outcome = "panic"

\* C17: a metric function given series of two lengths returns LengthMismatch
\* and no number, in whichever module it is exported from.
C17_LengthMismatchIsAnError ==
    (call.op = "metric" /\ Len(call.observations) # Len(call.simulations)) =>
        /\ call.result.outcome = "err"
        /\ call.result.error = "LengthMismatch"
        /\ call.result.value = <<>>

\* a metric of utils.rs returned NaN as its value for series of two lengths
C17_MismatchReturnedNaN ==
    /\ call.op = "metric" /\ call.module = "utils"
    /\ Len(call.observations) # Len(call.simulations)
    /\ call.result.outcome = "ok"
    /\ call.result.value = <<NaN>>

\* C18: constructing an optimizer succeeds exactly when the runoff name is
\* "gr4j" and the snow name, when given, is "cemaneige"; every other name
\* yields an unknown-model error and no optimizer.
C18_LookupIsCaseSensitive ==
    call.op = "new" =>
        IF call.climate_model = "gr4j" /\ call.snow_model \in {None, "cemaneige"}
        THEN ret.outcome = "ok" /\ sce # NoSce
        ELSE /\ ret.outcome = "err"
             /\ ret.error \in {"UnknownModel", "WrongModel"}
             /\ sce = NoSce

\* an optimizer was constructed for a runoff name in capitals
C18_UpperCaseNameAccepted ==
    /\ call.op = "new" /\ call.climate_model = "GR4J"
    /\ ret.outcome = "ok" /\ sce # NoSce

\* the call was a snow simulation that returned, on a forcing that keeps
\* every layer above 3 degrees on every day
WarmSnowCall ==
    /\ call.op = "simulate" /\ call.model = "cemaneige"
    /\ call.result.outcome = "ok"
    /\ \A t \in 1..Len(call.data.precipitation) :
          \A temps \in { LayerTemperatures(call.metadata,
                             TEMPERATURE_GRADIENT[
                                 ((call.data.day_of_year[t] - 1) % 365) + 1],
                             call.data.temperature[t]) } :
              \A i \in 1..Len(temps) : temps[i] > 3 * Milli

\* C20 as stated: for any snow parameters, when every layer is above 3
\* degrees on every day the snowpack of every layer stays 0, there is no
\* melt, and the effective precipitation of a day is its input precipitation.
C20_WarmPassesPrecipitationThrough ==
    WarmSnowCall =>
        \A t \in 1..Len(call.data.precipitation) :
            /\ \A i \in 1..Len(call.metadata.elevation_layers) :
                  call.result.snowpack[t][i] = 0
            /\ call.result.melt[t] = 0
            /\ call.result.value[t] = call.data.precipitation[t]

\* C20 for a melt factor kf that is not negative and a catchment of at least
\* one layer: the snowpack stays 0, there is no melt, and the effective
\* precipitation of a day is the sum of the layers' equal shares of its input
\* precipitation, which is the input itself for one layer and is short of it
\* by less than one unit of rounding per layer otherwise.
C20_WarmPassesSharesThrough ==
    (WarmSnowCall /\ call.params[2] >= 0
     /\ Len(call.metadata.elevation_layers) >= 1) =>
        \A t \in 1..Len(call.data.precipitation) :
            /\ \A i \in 1..Len(call.metadata.elevation_layers) :
                  call.result.snowpack[t][i] = 0
            /\ call.result.melt[t] = 0
            /\ call.result.value[t]
                  = Len(call.metadata.elevation_layers)
                    * LayerPrecipitation(call.metadata,
                                         call.data.precipitation[t])
            /\ Len(call.metadata.elevation_layers) = 1
                  => call.result.value[t] = call.data.precipitation[t]
            /\ Abs(call.result.value[t] - call.data.precipitation[t])
                  < Len(call.metadata.elevation_layers)

\* a warm simulation over three layers with a positive melt factor kept an
\* empty pack and returned the sum of three rounded thirds
C20_WarmOverThreeLayers ==
    /\ WarmSnowCall
    /\ call.params[2] > 0
    /\ Len(call.metadata.elevation_layers) = 3
    /\ call.result.melt[1] = 0
    /\ call.result.snowpack[1] = <<0, 0, 0>>
    /\ call.result.value[1] # call.data.precipitation[1]

\* C21: partitioning puts sorted row j * n_complexes + i at position j of
\* complex i: every row lands in exactly one place, every complex has
\* n_per_complex rows in sorted order, and the best row is row 0 of complex
\* 0.  Merging the complexes as they are gives the same rows, each with its
\* objective row, as often as before, ordered by the selected objective.
C21_PartitionInterleavesAndMergeRestores ==
    (ret.outcome = "ok" /\ ret.op \in {"init", "step"}) =>
        \A oi \in { objective_idx(sce.objective) } :
        \A parts \in { partition_into_complexes(sce.population,
                           sce.objectives, sce.n_complexes) } :
        \A merged \in { merge_complexes(parts.complexes,
                            parts.complex_objectives, oi,
                            is_minimization(sce.objective)) } :
            /\ Len(parts.complexes) = sce.n_complexes
            /\ Len(parts.complex_objectives) = sce.n_complexes
            /\ \A i \in 0..(sce.n_complexes - 1) :
                  /\ Len(parts.complexes[i + 1]) = sce.n_per_complex
                  /\ Len(parts.complex_objectives[i + 1]) = sce.n_per_complex
                  /\ \A j \in 0..(sce.n_per_complex - 1) :
                        /\ parts.complexes[i + 1][j + 1]
                              = sce.population[j * sce.n_complexes + i + 1]
                        /\ parts.complex_objectives[i + 1][j + 1]
                              = sce.objectives[j * sce.n_complexes + i + 1]
                  /\ \A x, y \in 1..sce.n_per_complex :
                        x < y => ~SortsBefore(
                                     parts.complex_objectives[i + 1][y],
                                     parts.complex_objectives[i + 1][x],
                                     oi, is_minimization(sce.objective))
            /\ \A r \in 1..Len(sce.population) :
                  Cardinality({ ij \in (0..(sce.n_complexes - 1))
                                       \X (0..(sce.n_per_complex - 1)) :
                                ij[2] * sce.n_complexes + ij[1] + 1 = r }) = 1
            /\ parts.complexes[1][1] = sce.population[1]
            /\ Len(merged.population) = Len(sce.population)
            /\ \A r \in 1..Len(sce.population) :
                  /\ Cardinality({ q \in 1..Len(merged.population) :
                        /\ merged.population[q] = sce.population[r]
                        /\ merged.objectives[q] = sce.objectives[r] })
                     = Cardinality({ q \in 1..Len(sce.population) :
                        /\ sce.population[q] = sce.population[r]
                        /\ sce.objectives[q] = sce.objectives[r] })
                  /\ r > 1 => ~SortsBefore(merged.objectives[r],
                                           merged.objectives[r - 1], oi,
                                           is_minimization(sce.objective))

\* a step succeeded on a population of the largest number of complexes,
\* whose second row is the head of the second complex and differs from the
\* row behind the first complex's rows
C21_SteppedOverInterleavedComplexes ==
    /\ ret.op = "step" /\ ret.outcome = "ok" /\ history.steps_run >= 1
    /\ sce.n_complexes = MaxComplexes /\ MaxComplexes > 1
    /\ partition_into_complexes(sce.population, sce.objectives,
                                sce.n_complexes).complexes[2][1]
          = sce.population[2]
    /\ sce.population[2] # sce.population[sce.n_per_complex + 1]

\* C25: a successful init leaves a criteria history of one value, the best
\* objective of the initial population; a successful step that runs while
\* not done appends the new best objective and changes no earlier entry; a
\* step called when done, and a call that fails, leave the history as it
\* is; so after a successful init and k successful not-done steps the
\* history has k + 1 entries.
C25_CriteriaAppendOnly ==
    [][/\ (InitMade /\ ret'.outcome = "ok") =>
              sce'.criteria = << BestObjective(sce') >>
       /\ (StepMade /\ ~sce.done /\ ret'.outcome = "ok") =>
              /\ sce'.criteria = Append(sce.criteria, BestObjective(sce'))
              /\ SubSeq(sce'.criteria, 1, Len(sce.criteria)) = sce.criteria
       /\ (StepMade /\ sce.done) => sce'.criteria = sce.criteria
       /\ ((InitMade \/ StepMade) /\ ret'.outcome # "ok") =>
              sce'.criteria = sce.criteria
       /\ history'.initialised =>
              Len(sce'.criteria) = history'.steps_since_init + 1]_vars

\* an init and two steps that ran while not done left three entries
C25_ThreeEntries ==
    /\ history.initialised /\ history.steps_since_init = 2
    /\ ret.op = "step" /\ ret.outcome = "ok"
    /\ Len(sce.criteria) = 3

C28_CounterCountsEvolutionOnly ==
    [][/\ ret.op = "new" => sce.n_calls = 0
       /\ InitMade => sce'.n_calls = sce.n_calls
       /\ (StepMade /\ (sce.done \/ ret'.outcome # "ok")) =>
              sce'.n_calls = sce.n_calls
       /\ (StepMade /\ ~sce.done /\ ret'.outcome = "ok") =>
              \A passes \in { sce.n_complexes
                              * (2 * Len(sce.lower_bounds) + 1) } :
              \A parts \in { partition_into_complexes(sce.population,
                                 sce.objectives, sce.n_complexes) } :
              \A evolved \in { evolve_complexes(parts.complexes,
                                   parts.complex_objectives, 1, sce.n_calls,
                                   [lower_bounds |-> sce.lower_bounds,
                                    upper_bounds |-> sce.upper_bounds,
                                    nan |-> build_nan,
                                    data |-> history'.last_input.data,
                                    observations |->
                                        history'.last_input.observations,
                                    objective_idx |->
                                        objective_idx(sce.objective),
                                    is_minimization |->
                                        is_minimization(sce.objective),
                                    n_complexes |-> sce.n_complexes,
                                    n_per_complex |-> sce.n_per_complex,
                                    n_simplex |-> sce.n_simplex,
                                    n_evolution_steps |->
                                        sce.n_evolution_steps],
                                   sce.rng) } :
                  /\ sce'.n_calls = evolved.n_calls
                  /\ sce'.n_calls >= sce.n_calls + passes
                  /\ sce'.n_calls <= sce.n_calls + 3 * passes]_vars

\* after an init, one step that ran while not done counted more than one
\* and fewer than three evaluations per pass
C28_CountedBetweenTheBounds ==
    /\ ret.op = "step" /\ ret.outcome = "ok"
    /\ history.initialised /\ history.steps_run = 1 /\ history.steps_done = 0
    /\ sce.n_calls > sce.n_complexes * (2 * Len(sce.lower_bounds) + 1)
    /\ sce.n_calls < 3 * sce.n_complexes * (2 * Len(sce.lower_bounds) + 1)

\* C29: a successful init changes the population, the objective table, the
\* best parameters and the criteria history (and the generator it drew
\* from) and nothing else: the done flag and the evaluation counter stay as
\* they were. The new tables are those of the init's own inputs. A step on
\* an optimizer that is done, initialised again or not, returns done = true
\* and evolves nothing.
C29_InitKeepsDoneAndCounter ==
    [][/\ (InitMade /\ ret'.outcome = "ok") =>
              /\ sce'.done = sce.done
              /\ sce'.n_calls = sce.n_calls
              /\ sce' = [sce EXCEPT !.population = sce'.population,
                                    !.objectives = sce'.objectives,
                                    !.params = sce'.params,
                                    !.criteria = sce'.criteria,
                                    !.rng = sce'.rng]
              /\ Len(sce'.criteria) = 1
              /\ sce'.params = sce'.population[1]
              /\ \A r \in 1..Len(sce'.population) :
                    sce'.objectives[r]
                        = Evaluate(build_nan, sce'.population[r],
                                   history'.last_input.data,
                                   history'.last_input.observations).value
       /\ (StepMade /\ sce.done) =>
              /\ sce' = sce
              /\ ret'.outcome = "ok" => ret'.value.done]_vars

\* an optimizer that had counted evaluations and was done has been
\* initialised again, and the step after that init returned done = true with
\* the criteria history still the one entry the init wrote
C29_DoneStepRightAfterReinit ==
    /\ ret.op = "step" /\ ret.outcome = "ok" /\ ret.value.done
    /\ history.was_done /\ history.init_since_done
    /\ history.steps_since_init = 0
    /\ Len(sce.criteria) = 1
    /\ sce.n_calls > 0

\* C30: with k_stop = 1 and a positive p_convergence_threshold, the first
\* step after an init returns done = true whenever the best objective is
\* not zero.
C30_KStopOneStopsAtFirstStep ==
    (/\ ret.op = "step" /\ ret.outcome = "ok"
     /\ history.initialised /\ history.steps_since_init = 1
     /\ sce.k_stop = 1 /\ sce.p_convergence_threshold > 0
     /\ BestObjective(sce) # 0)
        => ret.value.done

\* the first step after an init with k_stop = 1 and a positive threshold
\* kept a NaN as its best objective, ahead of a row with a number, and
\* returned done = false
C30_NaNBestKeepsRunning ==
    /\ ret.op = "step" /\ ret.outcome = "ok"
    /\ history.initialised /\ history.steps_since_init = 1
    /\ sce.k_stop = 1 /\ sce.p_convergence_threshold > 0
    /\ IsNaN(BestObjective(sce))
    /\ \E r \in 1..Len(sce.objectives) :
          IsFinite(sce.objectives[r][objective_idx(sce.objective)])
    /\ ~ret.value.done

\* C22: select_simplex_indices returns exactly n_simplex indices, in
\* ascending order, each within 0 .. n_per_complex - 1, index 0 among them.
\* Two of them are equal only when for some slot every one of the MaxTries
\* draws fell on an index chosen already: the draws repeat with a period of
\* RngLevels <= MaxTries, so every index the generator can yield is then
\* among the chosen ones.
C22_SimplexIndices ==
    call.op = "select" =>
        \A idx \in { call.result.indices } :
            /\ Len(idx) = call.n_simplex
            /\ \A i \in 1..Len(idx) : idx[i] \in 0..(call.n_per_complex - 1)
            /\ \A i \in 1..(Len(idx) - 1) : idx[i] <= idx[i + 1]
            /\ \E i \in 1..Len(idx) : idx[i] = 0
            /\ (\E i, j \in 1..Len(idx) : i < j /\ idx[i] = idx[j]) =>
                   \A k \in 0..(RngLevels - 1) :
                       Contains(idx, lpos_of(call.n_per_complex,
                                             Draw(call.rng, k)))

\* three pairwise distinct indices were selected after the first draw fell
\* on index 0, which is always chosen already
C22_DistinctAfterRetry ==
    /\ call.op = "select" /\ call.n_simplex >= 3
    /\ lpos_of(call.n_per_complex, Draw(call.rng, 0)) = 0
    /\ \A i, j \in 1..Len(call.result.indices) :
          i < j => call.result.indices[i] # call.result.indices[j]

\* C23: in one evolution step the reflection candidate (the reflection of
\* the worst point through the centroid, or the random point that takes its
\* place when the reflection lies outside the bounds) is kept when its
\* objective is not worse than the worst point's, after 1 evaluation;
\* otherwise the contraction is kept when it is not worse, after 2;
\* otherwise a random point inside the bounds is kept, whatever its
\* objective, after 3.  Worse is greater for RMSE, lesser for NSE and KGE.
C23_ReflectionContractionRandom ==
    (call.op = "pass" /\ call.step.outcome = "ok") =>
        \A ctx \in { call.ctx } :
        \A idx \in { call.selected.indices } :
        \A n \in { Len(call.selected.indices) } :
        \A cx \in { call.complexes[call.igs] } :
        \A sw \in { call.complexes[call.igs][idx[Len(idx)] + 1] } :
        \A fw \in { call.complex_objectives[call.igs][idx[Len(idx)] + 1]
                        [ctx.objective_idx] } :
        \A ce \in { Vec([i \in 1..Len(sw) |->
                       SumTo(Vec([r \in 1..(n - 1) |-> cx[idx[r] + 1][i]]),
                             n - 1) \div (n - 1)]) } :
        \A reflection \in { Vec([i \in 1..Len(sw) |-> 2 * ce[i] - sw[i]]) } :
        \A inside \in { \A i \in 1..Len(sw) :
                            /\ reflection[i] >= ctx.lower_bounds[i]
                            /\ reflection[i] <= ctx.upper_bounds[i] } :
        \A first \in { IF inside THEN reflection
                       ELSE RandomPoint(ctx.lower_bounds, ctx.upper_bounds,
                                        call.selected.rng, 0) } :
        \A contraction \in { Vec([i \in 1..Len(sw) |->
                                 sw[i] + ((ce[i] - sw[i]) \div 2)]) } :
        \A random \in { RandomPoint(ctx.lower_bounds, ctx.upper_bounds,
                            IF inside THEN call.selected.rng
                            ELSE Advance(call.selected.rng, Len(sw)), 0) } :
            LET value(point) == Evaluate(ctx.nan, point, ctx.data,
                                         ctx.observations).value
                worse(point) ==
                    IF call.objective = "rmse"
                    THEN FGt(value(point)[ctx.objective_idx], fw)
                    ELSE FLt(value(point)[ctx.objective_idx], fw)
                kept == IF ~worse(first) THEN <<first, 1>>
                        ELSE IF ~worse(contraction) THEN <<contraction, 2>>
                        ELSE <<random, 3>>
            IN  /\ call.step.calls \in 1..3
                /\ call.step.snew = kept[1]
                /\ call.step.calls = kept[2]
                /\ call.step.fnew = value(kept[1])
                /\ call.result.n_calls = call.step.calls
                /\ \A i \in 1..Len(sw) :
                      /\ call.step.snew[i] >= ctx.lower_bounds[i]
                      /\ call.step.snew[i] <= ctx.upper_bounds[i]

\* a pass made three evaluations and kept a random point whose objective is
\* worse than that of the worst point it replaced
C23_KeptWorseRandomPoint ==
    /\ call.op = "pass" /\ call.step.outcome = "ok"
    /\ call.step.calls = 3
    /\ is_worse(call.step.fnew[call.ctx.objective_idx],
                call.complex_objectives[call.igs]
                    [call.selected.indices[Len(call.selected.indices)] + 1]
                    [call.ctx.objective_idx],
                call.ctx.is_minimization)

\* C24: one pass on complex igs leaves every other complex as it was and,
\* within complex igs, replaces the one member at the highest selected index
\* by the new point and its objective row: the members after the pass are
\* the members before it with that one replaced, each as often as before,
\* and they are sorted by the selected objective.
C24_PassReplacesOneMember ==
    (call.op = "pass" /\ call.result.outcome = "ok") =>
        \A igs \in { call.igs } :
        \A oi \in { call.ctx.objective_idx } :
        \A highest \in { call.selected.indices[Len(call.selected.indices)]
                         + 1 } :
        \A rows \in { 1..Len(call.complexes[call.igs]) } :
        \A expected \in { [r \in rows |->
                              IF r = highest
                              THEN <<call.step.snew, call.step.fnew>>
                              ELSE <<call.complexes[igs][r],
                                     call.complex_objectives[igs][r]>>] } :
        \A after \in { [r \in rows |->
                           <<call.result.complexes[igs][r],
                             call.result.complex_objectives[igs][r]>>] } :
            /\ Len(call.result.complexes) = Len(call.complexes)
            /\ \A c \in 1..Len(call.complexes) :
                  c # igs =>
                      /\ call.result.complexes[c] = call.complexes[c]
                      /\ call.result.complex_objectives[c]
                             = call.complex_objectives[c]
            /\ Len(call.result.complexes[igs]) = Len(call.complexes[igs])
            /\ Len(call.result.complex_objectives[igs])
                   = Len(call.complexes[igs])
            /\ \A r \in rows :
                  /\ Cardinality({ q \in rows : after[q] = after[r] })
                         = Cardinality({ q \in rows : expected[q] = after[r] })
                  /\ Cardinality({ q \in rows : after[q] = expected[r] })
                         = Cardinality({ q \in rows : expected[q] = expected[r] })
                  /\ r > 1 =>
                        ~SortsBefore(call.result.complex_objectives[igs][r],
                                     call.result.complex_objectives[igs][r - 1],
                                     oi, call.ctx.is_minimization)

\* a pass on the first of two complexes replaced the member at the highest
\* selected index by a different point, which the sort then moved to
\* another row
C24_NewMemberMovedBySort ==
    /\ call.op = "pass" /\ call.result.outcome = "ok"
    /\ call.igs = 1 /\ Len(call.complexes) = 2
    /\ \E highest \in { call.selected.indices[Len(call.selected.indices)]
                        + 1 } :
          /\ call.step.snew # call.complexes[1][highest]
          /\ call.result.complexes[1][highest] # call.step.snew
          /\ \E r \in 1..Len(call.result.complexes[1]) :
                call.result.complexes[1][r] = call.step.snew

\* C27: at every timestep of the routing the two buffers are ceil(x4) and
\* ceil(2 x4) long; each entry is the entry one place further from index 0
\* at the timestep before (0 for the last entry, and at the first timestep),
\* plus the share of the new input of its ordinate; and the value read at
\* index 0 at timestep t is the sum over i of the shares with ordinate i of
\* the inputs of timestep t - i, so that a share with ordinate i injected at
\* timestep t is read at timestep t + i, once.
C27_BuffersShiftAndDeliver ==
    call.op = "routing" =>
        \A rp \in { call.routing_precipitations } :
        \A lengths \in { << (call.x4 + 9) \div 10,
                            (2 * call.x4 + 9) \div 10 >> } :
        \A t \in 1..Len(call.result) :
        \A b \in 1..2 :
            LET share == IF b = 1 THEN 9 ELSE 1
                u == call.unit_hydrographs[b]
                h == call.result[t].hydrographs[b]
                before(i) == IF t = 1 THEN 0
                             ELSE call.result[t - 1].hydrographs[b][i]
                read == IF b = 1 THEN call.result[t].q9
                        ELSE call.result[t].q1
                reach == Min2(lengths[b], t)
            IN  /\ Len(h) = lengths[b]
                /\ Len(u) = lengths[b]
                /\ \A i \in 1..lengths[b] :
                      h[i] = (IF i < lengths[b] THEN before(i + 1) ELSE 0)
                             + share * rp[t] * u[i]
                /\ read = h[1]
                /\ read = SumTo(Vec([i \in 1..reach |->
                                       share * rp[t - i + 1] * u[i]]), reach)

\* with x4 = 2.5 days the one input, of the first timestep, left a share in
\* the last place of the five of the second buffer, and that share was read
\* at index 0 four timesteps later
C27_LastShareRead ==
    /\ call.op = "routing" /\ call.x4 = 25
    /\ call.routing_precipitations[1] > 0
    /\ \A t \in 2..RoutingSteps : call.routing_precipitations[t] = 0
    /\ Len(call.result[1].hydrographs[2]) = 5
    /\ call.result[1].hydrographs[2][5] > 0
    /\ call.result[5].q1 = call.result[1].hydrographs[2][5]

====
